---- MODULE Spec2Model ----
(***************************************************************************)
(* StreamableHTTPTransport (streamable_http_transport.py): the session     *)
(* registry, the per-session asyncio.Queue, the SSE generator of           *)
(* handle_get, handle_post, handle_delete and send_message, as tasks of    *)
(* one asyncio event loop.  A task runs without interruption between two   *)
(* suspension points (an await that really suspends, or a yield of the     *)
(* generator); each action below is one such uninterrupted stretch.        *)
(* asyncio.Queue() is unbounded, so `await queue.put(x)` never suspends.   *)
(***************************************************************************)
EXTENDS Integers, Sequences, FiniteSets, TLC

\* ---------------------------------------------------------------- bounds
\* events from outside in one run: requests received, send_message calls,
\* keepalive timeouts and client disconnects
MaxEvents == 4
\* the same, in the runs checked for liveness (FairSpec)
LiveEvents == 3
\* events of the replay-buffer runs (SpecBuffer): one GET and BufEvents - 1 send_message calls
BufEvents == 151

\* events from outside in the runs with two POST requests in flight (SpecTwoPosts)
TwoEvents == 3

\* events from outside in the runs with messages json.dumps rejects (SpecFailure)
FailEvents == 4

\* events from outside in the runs of a client that reconnects (SpecResume)
ResumeEvents == 5

\* requests in the runs of the application behind its gate (SpecGate)
GateEvents == 2
\* POST requests of the runs of the two POST entry points (SpecPost)
PostEvents == 3

\* ------------------------------------------------------- program constants
\* len(session['message_buffer']) > 100
BufferCap == 100

\* ------------------------------------------------------------ value sets
\* ids a client makes up for the Mcp-Session-Id header
ClientIds == {"c1"}
\* the values str(uuid.uuid4()) returns, in the order it returns them
UuidPool == <<"u1", "u2", "u3", "u4", "u5", "u6", "u7">>
AllIds == ClientIds \cup {UuidPool[i] : i \in 1..Len(UuidPool)}
\* header absent (or empty: `if not session_id`)
NoHeader == "absent"
\* the sentinel None
None == "None"
\* responses of the message handler / messages given to send_message
Payloads == {"m1", "m2"}
\* what str(e) gives for the exceptions met: a failure of the handler, and the
\* UnicodeDecodeError of body.decode('utf-8')
HandlerFailures == {"handler failed"}
DecodeFailure == "invalid start byte"
\* handle_post tasks (a task that has returned is free again); a request takes
\* the first free one, and OnePost are the tasks of the runs with one POST in
\* flight at a time
PostTasks == {"p1", "p2"}
OnePost == {"p1"}
EarlierPost(p) == IF p = "p2" THEN {"p1"} ELSE {}
\* the GET requests, named in the order they arrive
Streams == {"g1", "g2"}
Earlier(g) == IF g = "g2" THEN {"g1"} ELSE {}

VARIABLES
    sessions,         \* self.sessions: session id -> session object (index into heap)
    heap,             \* the session dicts ever created, by object identity
    message_handler,  \* self.message_handler: None or a handler
    uuids,            \* number of uuid4() values handed out
    issued,           \* session ids a client has been told (response header, session event)
    post,             \* the handle_post tasks: position and locals
    stream,           \* the handle_get tasks and their event_generator: position, locals, frames sent
    resp,             \* the HTTP response returned last
    enqueued,         \* per session object, every item ever put on its queue, in order
    events,           \* events from outside so far
    mcp_post,         \* the handle_mcp_post task of the /mcp application: position and locals
    mcp_resp,         \* what handle_mcp_post ended with last: a response, or an exception
    MCP_API_KEY,      \* the module constant read from the environment at import
    gate              \* the simple_auth_middleware task: position, request, outcome

\* the state of the StreamableHTTPTransport object and of its tasks
transport_vars == <<sessions, heap, message_handler, uuids, issued, post, stream, resp,
                    enqueued>>
\* the state of the tasks of the application of create_app
app_vars == <<mcp_post, mcp_resp>>
\* the state of the authentication middleware of the application
gate_vars == <<MCP_API_KEY, gate>>

vars == <<sessions, heap, message_handler, uuids, issued, post, stream, resp, enqueued,
          events, mcp_post, mcp_resp, MCP_API_KEY, gate>>

\* ------------------------------------------------------------- helpers
RECURSIVE str(_)
\* str(n) of a non-negative int: its decimal digits
str(n) == IF n < 10 THEN <<n>> ELSE Append(str(n \div 10), n % 10)

\* json.dumps(v): the JSON text of v
json_dumps(v) == <<"json", v>>
\* a Python object json.dumps raises TypeError for, and the text of that error
Unserializable == "set()"
NotSerializable == "Object of type set is not JSON serializable"
Serializable(v) == v # Unserializable

\* the dict literal of handle_get (no 'is_stateless' key)
GetSession(sid) ==
    [id |-> sid, queue |-> <<>>, event_counter |-> 0, message_buffer |-> <<>>,
     is_stateless |-> "absent"]

\* the dict literal of handle_post
PostSession(sid, is_stateless) ==
    [id |-> sid, queue |-> <<>>, event_counter |-> 0, message_buffer |-> <<>>,
     is_stateless |-> IF is_stateless THEN "True" ELSE "False"]

\* mutant: the key stays
DelKey_keeps(reg, sid) == reg

\* del self.sessions[sid]
DelKey(reg, sid) == [k \in (DOMAIN reg) \ {sid} |-> reg[k]]

\* mutant: the queue hands out the newest item first
QueuePut_lifo(h, o, item) == [h EXCEPT ![o].queue = <<item>> \o @]

\* mutant: the item is put on the queue of every session
QueuePut_broadcast(h, o, item) == [q \in DOMAIN h |-> [h[q] EXCEPT !.queue = Append(@, item)]]

\* mutant: a queue of one place that drops what does not fit
QueuePut_one_place(h, o, item) ==
    IF h[o].queue # <<>> THEN h ELSE [h EXCEPT ![o].queue = Append(@, item)]

\* queue.put(item) on session object o
QueuePut(h, o, item) == [h EXCEPT ![o].queue = Append(@, item)]

\* a response as the caller sees it: req is the Mcp-Session-Id of the request,
\* sid the Mcp-Session-Id header of the response
Response(op, task, req, status, sid, content) ==
    [op |-> op, task |-> task, req |-> req, status |-> status, sid |-> sid,
     content |-> content]

\* the dict {'error': text}
ErrorBody(text) == [error |-> text]

NoResponse == Response("none", "none", NoHeader, 0, NoHeader, <<>>)

\* the session ids a client can put in a header: made up, or learnt from a response
Presentable == ClientIds \cup issued

\* str(uuid.uuid4()): a value never returned before
uuid4 == UuidPool[uuids + 1]

\* mutant: the session dict is created and stored without looking for the id
CreateIfMissing_always(sid, dict) ==
    /\ heap' = Append(heap, dict)
    /\ sessions' = [k \in (DOMAIN sessions) \cup {sid} |->
                      IF k = sid THEN Len(heap) + 1 ELSE sessions[k]]
    /\ enqueued' = Append(enqueued, <<>>)

\* `if session_id not in self.sessions: self.sessions[session_id] = {...}`
CreateIfMissing(sid, dict) ==
    IF sid \in DOMAIN sessions
    THEN UNCHANGED <<sessions, heap, enqueued>>
    ELSE /\ heap' = Append(heap, dict)
         /\ sessions' = sessions @@ (sid :> (Len(heap) + 1))
         /\ enqueued' = Append(enqueued, <<>>)

\* ---- the request bodies of POST /mcp (remote_server_streamable.py)
\* a key the JSON object does not have
Missing == "missing"
\* the values of "method": the two routes of handle_mcp_post and one it does not know
Methods == {"tools/list", "tools/call", "ping"}
\* the values of "id" (the JSON texts 7 and "req-a")
RequestIds == {"7", "req-a"}
\* the values of "params": a JSON object or a JSON array
ParamShapes == {"object", "array"}
\* what json.loads returns for a body holding a JSON object
JsonObjects ==
    [kind : {"object"}, method : Methods \cup {Missing}, id : RequestIds \cup {Missing},
     params : ParamShapes \cup {Missing}]
\* a body that is no JSON object: bytes that are not UTF-8, text that is not
\* JSON, and JSON texts of an array and of a number
OtherBody(kind) == [kind |-> kind, method |-> Missing, id |-> Missing, params |-> Missing]
Bodies == JsonObjects \cup {OtherBody(k) : k \in {"not_utf8", "not_json", "array", "number"}}
\* what mcp.list_tools() / mcp.call_tool() raise, as str(e)
ToolFailures == {"tool failed"}

\* dict.get(key): None for a key the dict does not have
Get(message, key) == IF message[key] = Missing THEN None ELSE message[key]

\* {'jsonrpc': '2.0', 'id': id, 'error': {'code': code, 'message': message, 'data': data}}
JsonRpcError(id, code, message, data) ==
    [jsonrpc |-> "2.0", id |-> id,
     error |-> [code |-> code, message |-> message, data |-> data]]
\* {'jsonrpc': '2.0', 'id': id, 'error': {'code': -32601, 'message': f'Method not found: {method}'}}
MethodNotFound(id, method) ==
    [jsonrpc |-> "2.0", id |-> id,
     error |-> [code |-> -32601, message |-> <<"Method not found: ", method>>]]
\* {'jsonrpc': '2.0', 'id': id, 'result': result}
JsonRpcResult(id, result) == [jsonrpc |-> "2.0", id |-> id, result |-> result]

\* JSONResponse(content, status_code): raised is the exception that left the
\* handler instead, None when a response was returned
McpResponse(status, content) == [status |-> status, content |-> content, raised |-> None]
\* an exception leaves handle_mcp_post: no response is returned
McpRaises(exception) == [status |-> 0, content |-> [none |-> None], raised |-> exception]
NoMcpResponse == [status |-> 0, content |-> [none |-> None], raised |-> None]
McpIdle == [pc |-> "idle", body |-> OtherBody("none")]

\* ---- simple_auth_middleware (remote_server_streamable.py)
\* Header values are sequences of pieces of text, <<>> being the empty string a
\* missing header is read as: 'Bearer your-test-key' is <<"Bearer ", "your-test-key">>
DefaultKey == <<"your-test-key">>
\* the values of the environment variable MCP_API_KEY: unset (the default), or empty
ApiKeys == {DefaultKey, <<>>}
\* Authorization: missing, Bearer with the key, Bearer with another key, Bearer
\* with nothing, another scheme, and the bare key without a scheme
Authorizations ==
    {<<>>, <<"Bearer ", "your-test-key">>, <<"Bearer ", "other-key">>, <<"Bearer ">>,
     <<"Basic ", "dXNlcjpwdw==">>, <<"your-test-key">>}
\* X-API-Key: missing, the key, another key
XApiKeys == {<<>>, <<"your-test-key">>, <<"other-key">>}
Paths == {"/health", "/info", "/mcp"}
HttpMethods == {"GET", "POST"}
\* the bodies of the POST requests that go through the gate
GateBodies ==
    {[kind |-> "object", method |-> "tools/list", id |-> "7", params |-> Missing],
     OtherBody("not_json")}
Requests ==
    {r \in [path : Paths, method : HttpMethods, Authorization : Authorizations,
            XApiKey : XApiKeys, body : GateBodies \cup {OtherBody("none")}] :
        (r.body = OtherBody("none")) <=> (r.method = "GET")}
NoRequest ==
    [path |-> "none", method |-> "none", Authorization |-> <<>>, XApiKey |-> <<>>,
     body |-> OtherBody("none")]

\* auth_header.startswith('Bearer ')
StartsWithBearer(auth_header) == auth_header # <<>> /\ auth_header[1] = "Bearer "
\* auth_header.replace('Bearer ', ''): every occurrence is removed
RemoveBearer(auth_header) == SelectSeq(auth_header, LAMBDA piece : piece # "Bearer ")
\* `auth_header.replace('Bearer ', '') if auth_header else api_key`
ProvidedKey(auth_header, api_key) ==
    IF auth_header # <<>> THEN RemoveBearer(auth_header) ELSE api_key

CallNext == [status |-> 0, error |-> "none"]
Unauthorized(error) == [status |-> 401, error |-> error]

\* mutant: any non-empty key is accepted, whatever MCP_API_KEY is
simple_auth_middleware_any_key(request, key) ==
    IF request.path \in {"/health", "/info"} THEN CallNext
    ELSE LET auth_header == request.Authorization
             api_key == request.XApiKey
             provided_key == ProvidedKey(auth_header, api_key)
         IN IF ~(StartsWithBearer(auth_header) \/ api_key # <<>>)
            THEN Unauthorized("Missing authentication")
            ELSE IF provided_key = <<>>
            THEN Unauthorized("Invalid authentication credentials")
            ELSE CallNext

\* what the middleware does with a request, for the configured key: hand it
\* to call_next, or answer 401
simple_auth_middleware(request, key) ==
    IF request.path \in {"/health", "/info"} THEN CallNext
    ELSE LET auth_header == request.Authorization
             api_key == request.XApiKey
             provided_key == ProvidedKey(auth_header, api_key)
         IN IF ~(StartsWithBearer(auth_header) \/ api_key # <<>>)
            THEN Unauthorized("Missing authentication")
            ELSE IF provided_key = <<>>
            THEN Unauthorized("Invalid authentication credentials")
            ELSE IF key # <<>> /\ provided_key # key
            THEN Unauthorized("Invalid authentication credentials")
            ELSE CallNext

\* the route Starlette finds for a request that reached call_next
Route(request) ==
    CASE request.path = "/health" /\ request.method = "GET" -> "health_check"
      [] request.path = "/info" /\ request.method = "GET" -> "server_info"
      [] request.path = "/mcp" /\ request.method = "GET" -> "handle_sse_get"
      [] request.path = "/mcp" /\ request.method = "POST" -> "handle_mcp_post"
      [] OTHER -> "method not allowed"

\* reached: the endpoint call_next led to, "none" for a request answered by the gate
GateIdle == [pc |-> "idle", request |-> NoRequest, status |-> 0, reached |-> "none"]

Init ==
    /\ sessions = <<>>
    /\ heap = <<>>
    /\ message_handler = None
    /\ uuids = 0
    /\ issued = {}
    /\ post = [p \in PostTasks |->
                 [pc |-> "idle", session_id |-> NoHeader, is_stateless |-> FALSE,
                  session |-> 0]]
    /\ stream = [g \in Streams |->
                 [pc |-> "idle", session_id |-> NoHeader, session |-> 0,
                  event_id |-> <<>>, message |-> None, out |-> <<>>,
                  closed_by |-> "none"]]
    /\ resp = NoResponse
    /\ enqueued = <<>>
    /\ events = 0
    /\ mcp_post = McpIdle
    /\ mcp_resp = NoMcpResponse
    /\ MCP_API_KEY = DefaultKey
    /\ gate = GateIdle

\* ------------------------------------------------------------- actions
set_message_handler ==
    /\ message_handler = None
    /\ message_handler' = "handler"
    /\ UNCHANGED <<sessions, heap, uuids, issued, post, stream, resp, enqueued>>

\* mutant: a GET with Last-Event-ID starts its stream with the buffered events
handle_get_replays(g, hdr, last_event_id) ==
    /\ stream[g].pc = "idle"
    /\ \A e \in Earlier(g) : stream[e].pc # "idle"
    /\ hdr \in Presentable \cup {NoHeader}
    /\ hdr = NoHeader => uuids < Len(UuidPool)
    /\ LET session_id == IF hdr = NoHeader THEN uuid4 ELSE hdr IN
        /\ CreateIfMissing(session_id, GetSession(session_id))
        /\ uuids' = IF hdr = NoHeader THEN uuids + 1 ELSE uuids
        /\ LET buffer == heap'[sessions'[session_id]].message_buffer IN
           stream' = [stream EXCEPT ![g] =
                        [@ EXCEPT !.pc = "handshake", !.session_id = session_id,
                                  !.session = sessions'[session_id],
                                  !.out = IF last_event_id = NoHeader THEN <<>>
                                          ELSE [i \in 1..Len(buffer) |->
                                                  [event |-> "message", id |-> buffer[i].id,
                                                   data |-> json_dumps(buffer[i].data)]]]]
        /\ resp' = Response("GET", g, hdr, 200, session_id, <<"text/event-stream">>)
        /\ issued' = issued \cup {session_id}
    /\ UNCHANGED <<message_handler, post>>

\* mutant: a GET on a registered id starts the session afresh
handle_get_resets(g, hdr, last_event_id) ==
    /\ stream[g].pc = "idle"
    /\ \A e \in Earlier(g) : stream[e].pc # "idle"
    /\ hdr \in Presentable \cup {NoHeader}
    /\ hdr = NoHeader => uuids < Len(UuidPool)
    /\ LET session_id == IF hdr = NoHeader THEN uuid4 ELSE hdr IN
        /\ IF session_id \in DOMAIN sessions
           THEN /\ heap' = [heap EXCEPT ![sessions[session_id]] = GetSession(session_id)]
                /\ UNCHANGED <<sessions, enqueued>>
           ELSE CreateIfMissing(session_id, GetSession(session_id))
        /\ uuids' = IF hdr = NoHeader THEN uuids + 1 ELSE uuids
        /\ stream' = [stream EXCEPT ![g] =
                        [@ EXCEPT !.pc = "handshake", !.session_id = session_id,
                                  !.session = sessions'[session_id]]]
        /\ resp' = Response("GET", g, hdr, 200, session_id, <<"text/event-stream">>)
        /\ issued' = issued \cup {session_id}
    /\ UNCHANGED <<message_handler, post>>

\* the values of the Last-Event-ID header of a GET
LastEventIds == {NoHeader, "1"}

\* ---- handle_get: everything up to `return StreamingResponse(...)`;
\* last_event_id is read from the request and logged, nothing else
handle_get_request(g, hdr, last_event_id) ==
    /\ last_event_id \in LastEventIds
    /\ stream[g].pc = "idle"
    /\ \A e \in Earlier(g) : stream[e].pc # "idle"
    /\ hdr \in Presentable \cup {NoHeader}
    /\ hdr = NoHeader => uuids < Len(UuidPool)
    /\ LET session_id == IF hdr = NoHeader THEN uuid4 ELSE hdr IN
        /\ CreateIfMissing(session_id, GetSession(session_id))
        /\ uuids' = IF hdr = NoHeader THEN uuids + 1 ELSE uuids
        /\ stream' = [stream EXCEPT ![g] =
                        [@ EXCEPT !.pc = "handshake", !.session_id = session_id,
                                  !.session = sessions'[session_id]]]
        /\ resp' = Response("GET", g, hdr, 200, session_id, <<"text/event-stream">>)
        /\ issued' = issued \cup {session_id}
    /\ UNCHANGED <<message_handler, post>>

\* a GET with any Last-Event-ID, or none
handle_get(g, hdr) ==
    \E last_event_id \in LastEventIds : handle_get_request(g, hdr, last_event_id)

\* ---- event_generator
Frame(event, id, data) == [event |-> event, id |-> id, data |-> data]

\* mutant: the handshake frames are numbered like messages
gen_handshake_numbered(g) ==
    /\ stream[g].pc = "handshake"
    /\ LET o == stream[g].session IN
        /\ heap' = [heap EXCEPT ![o].event_counter = @ + 2]
        /\ stream' = [stream EXCEPT ![g].pc = "wait",
                                    ![g].out = @ \o <<Frame("endpoint", str(heap[o].event_counter + 1),
                                                            json_dumps([endpoint |-> "/mcp"])),
                                                      Frame("session", str(heap[o].event_counter + 2),
                                                            json_dumps([sessionId |->
                                                                          stream[g].session_id]))>>]
    /\ UNCHANGED <<sessions, message_handler, uuids, issued, post, resp, enqueued>>

\* the handshake: yield 'event: endpoint', its data, 'event: session', its data
gen_handshake(g) ==
    /\ stream[g].pc = "handshake"
    /\ stream' = [stream EXCEPT ![g].pc = "wait",
                                ![g].out = @ \o <<Frame("endpoint", <<>>,
                                                        json_dumps([endpoint |-> "/mcp"])),
                                                  Frame("session", <<>>,
                                                        json_dumps([sessionId |->
                                                                      stream[g].session_id]))>>]
    /\ UNCHANGED <<sessions, heap, message_handler, uuids, issued, post, resp, enqueued>>

\* mutant: the counter is not incremented
Deliver_no_increment(s, message) ==
    [s EXCEPT !.message_buffer = Append(@, [id |-> str(s.event_counter), data |-> message])]

\* mutant: nothing is evicted
Deliver_no_evict(s, message) ==
    [s EXCEPT !.event_counter = @ + 1,
              !.message_buffer = Append(@, [id |-> str(s.event_counter + 1), data |-> message])]

\* mutant: the newest entry is evicted instead of the oldest
Deliver_evict_newest(s, message) ==
    LET counter == s.event_counter + 1
        buffer  == Append(s.message_buffer, [id |-> str(counter), data |-> message])
    IN [s EXCEPT !.event_counter = counter,
                 !.message_buffer = IF Len(buffer) > BufferCap
                                    THEN SubSeq(buffer, 1, Len(buffer) - 1) ELSE buffer]

\* mutant: the entry is appended with the counter as it was, then the counter grows
Deliver_append_first(s, message) ==
    LET buffer == Append(s.message_buffer, [id |-> str(s.event_counter), data |-> message])
    IN [s EXCEPT !.event_counter = @ + 1,
                 !.message_buffer = IF Len(buffer) > BufferCap THEN Tail(buffer) ELSE buffer]

\* session['event_counter'] += 1 ... session['message_buffer'].pop(0)
Deliver(s, message) ==
    LET counter == s.event_counter + 1
        buffer  == Append(s.message_buffer, [id |-> str(counter), data |-> message])
    IN [s EXCEPT !.event_counter = counter,
                 !.message_buffer = IF Len(buffer) > BufferCap THEN Tail(buffer) ELSE buffer]

\* mutant: each stream numbers the frames it sends by itself
gen_dequeue_own_count(g) ==
    /\ stream[g].pc = "wait"
    /\ LET o == stream[g].session
           message == Head(heap[o].queue)
           rest == [heap[o] EXCEPT !.queue = Tail(@)]
       IN /\ heap[o].queue # <<>>
          /\ IF message = None
             THEN /\ heap' = [heap EXCEPT ![o] = rest]
                  /\ stream' = [stream EXCEPT ![g].pc = "closed", ![g].closed_by = "sentinel"]
             ELSE /\ heap' = [heap EXCEPT ![o] = Deliver(rest, message)]
                  /\ stream' = [stream EXCEPT ![g].pc = "emit",
                                              ![g].event_id = str(Len(stream[g].out) - 1),
                                              ![g].message = message]
    /\ UNCHANGED <<sessions, message_handler, uuids, issued, post, resp, enqueued>>

\* mutant: the loop drops the close signal and goes on
gen_dequeue_skips_signal(g) ==
    /\ stream[g].pc = "wait"
    /\ LET o == stream[g].session
           message == Head(heap[o].queue)
           rest == [heap[o] EXCEPT !.queue = Tail(@)]
       IN /\ heap[o].queue # <<>>
          /\ IF message = None
             THEN /\ heap' = [heap EXCEPT ![o] = rest]
                  /\ stream' = stream
             ELSE /\ heap' = [heap EXCEPT ![o] = Deliver(rest, message)]
                  /\ stream' = [stream EXCEPT ![g].pc = "emit",
                                              ![g].event_id = str(heap'[o].event_counter),
                                              ![g].message = message]
    /\ UNCHANGED <<sessions, message_handler, uuids, issued, post, resp, enqueued>>

\* queue.get() returns: the sentinel breaks the loop, a message is counted and buffered
gen_dequeue(g) ==
    /\ stream[g].pc = "wait"
    /\ LET o == stream[g].session
           message == Head(heap[o].queue)
           rest == [heap[o] EXCEPT !.queue = Tail(@)]
       IN /\ heap[o].queue # <<>>
          /\ IF message = None
             THEN /\ heap' = [heap EXCEPT ![o] = rest]
                  /\ stream' = [stream EXCEPT ![g].pc = "closed", ![g].closed_by = "sentinel"]
             ELSE /\ heap' = [heap EXCEPT ![o] = Deliver(rest, message)]
                  /\ stream' = [stream EXCEPT ![g].pc = "emit",
                                              ![g].event_id = str(heap'[o].event_counter),
                                              ![g].message = message]
    /\ UNCHANGED <<sessions, message_handler, uuids, issued, post, resp, enqueued>>

\* yield id: / event: message / data: json.dumps(message)
gen_emit(g) ==
    /\ stream[g].pc = "emit"
    /\ Serializable(stream[g].message)
    /\ stream' = [stream EXCEPT ![g].pc = "wait",
                                ![g].out = Append(@, Frame("message", stream[g].event_id,
                                                           json_dumps(stream[g].message)))]
    /\ UNCHANGED <<sessions, heap, message_handler, uuids, issued, post, resp, enqueued>>

\* mutant: the stream that fails deletes its session
gen_fails_removes(g) ==
    /\ stream[g].pc = "emit"
    /\ ~Serializable(stream[g].message)
    /\ stream' = [stream EXCEPT ![g].pc = "closed", ![g].closed_by = "failure",
                                ![g].out = Append(@, Frame("partial", stream[g].event_id, <<>>))]
    /\ sessions' = DelKey(sessions, stream[g].session_id)
    /\ UNCHANGED <<heap, message_handler, uuids, issued, post, resp, enqueued>>

\* 'id:' and 'event: message' are sent, json.dumps(message) raises TypeError:
\* `except Exception` logs "SSE stream error" and the generator ends
gen_fails(g) ==
    /\ stream[g].pc = "emit"
    /\ ~Serializable(stream[g].message)
    /\ stream' = [stream EXCEPT ![g].pc = "closed", ![g].closed_by = "failure",
                                ![g].out = Append(@, Frame("partial", stream[g].event_id, <<>>))]
    /\ UNCHANGED <<sessions, heap, message_handler, uuids, issued, post, resp, enqueued>>

\* mutant: a keepalive takes an event id
gen_keepalive_takes_id(g) ==
    /\ stream[g].pc = "wait"
    /\ heap[stream[g].session].queue = <<>>
    /\ stream' = [stream EXCEPT ![g].out = Append(@, Frame("keepalive", <<>>, <<>>))]
    /\ heap' = [heap EXCEPT ![stream[g].session].event_counter = @ + 1]
    /\ UNCHANGED <<sessions, message_handler, uuids, issued, post, resp, enqueued>>

\* asyncio.TimeoutError after 30 s with nothing on the queue: yield ': keepalive'
gen_keepalive(g) ==
    /\ stream[g].pc = "wait"
    /\ heap[stream[g].session].queue = <<>>
    /\ stream' = [stream EXCEPT ![g].out = Append(@, Frame("keepalive", <<>>, <<>>))]
    /\ UNCHANGED <<sessions, heap, message_handler, uuids, issued, post, resp, enqueued>>

\* the client goes away: the generator is cancelled where it is suspended
gen_disconnect(g) ==
    /\ stream[g].pc \in {"handshake", "wait", "emit"}
    /\ stream' = [stream EXCEPT ![g].pc = "closed", ![g].closed_by = "disconnect"]
    /\ UNCHANGED <<sessions, heap, message_handler, uuids, issued, post, resp, enqueued>>

\* ---- handle_post
\* mutant: the cleanup does not look at is_stateless
Cleanup_any(reg, is_stateless, session_id) ==
    IF session_id \in DOMAIN reg THEN [k \in (DOMAIN reg) \ {session_id} |-> reg[k]] ELSE reg

\* mutant: no cleanup
Cleanup_never(reg, is_stateless, session_id) == reg

\* mutant: the response is queued for stateless requests too
EnqueueResponse_always(h, is_stateless, o, response) ==
    [h EXCEPT ![o].queue = Append(@, response)]

\* mutant: the session is removed before the sentinel is put: the lookup raises KeyError
delete_found_removal_first(reg, h, sid) ==
    [sessions |-> [k \in (DOMAIN reg) \ {sid} |-> reg[k]], heap |-> h, put_on |-> 0,
     status |-> 500]

\* mutant: the session is removed and no sentinel is put
delete_found_no_signal(reg, h, sid) ==
    [sessions |-> [k \in (DOMAIN reg) \ {sid} |-> reg[k]], heap |-> h, put_on |-> 0,
     status |-> 200]

\* mutant: the response is put on the queue twice
EnqueueResponse_twice(h, is_stateless, o, response) ==
    IF is_stateless THEN h
    ELSE [h EXCEPT ![o].queue = Append(Append(@, response), response)]

PostIdle == [pc |-> "idle", session_id |-> NoHeader, is_stateless |-> FALSE, session |-> 0]

\* up to `await request.body()`: resolve the id, create the session if missing
handle_post(p, hdr) ==
    /\ post[p].pc = "idle"
    /\ hdr \in Presentable \cup {NoHeader}
    /\ hdr = NoHeader => uuids < Len(UuidPool)
    /\ LET is_stateless == (hdr = NoHeader)
           session_id == IF is_stateless THEN uuid4 ELSE hdr
       IN /\ CreateIfMissing(session_id, PostSession(session_id, is_stateless))
          /\ uuids' = IF is_stateless THEN uuids + 1 ELSE uuids
          /\ post' = [post EXCEPT ![p] =
                        [pc |-> "body", session_id |-> session_id,
                         is_stateless |-> is_stateless,
                         session |-> sessions'[session_id]]]
    /\ UNCHANGED <<message_handler, issued, stream, resp>>

\* the Mcp-Session-Id header task p was called with
PostHeader(p) == IF post[p].is_stateless THEN NoHeader ELSE post[p].session_id

\* `if is_stateless and session_id in self.sessions: del self.sessions[session_id]`
Cleanup(reg, is_stateless, session_id) ==
    IF is_stateless /\ session_id \in DOMAIN reg THEN DelKey(reg, session_id) ELSE reg

\* mutant: the error body is put on the session queue as well
post_invalid_json_enqueues(p) ==
    /\ post[p].pc = "body"
    /\ post' = [post EXCEPT ![p] = PostIdle]
    /\ resp' = Response("POST", p, PostHeader(p), 400, NoHeader,
                        json_dumps(ErrorBody("Invalid JSON")))
    /\ heap' = QueuePut(heap, post[p].session, "m1")
    /\ enqueued' = [enqueued EXCEPT ![post[p].session] = Append(@, "m1")]
    /\ UNCHANGED <<sessions, message_handler, uuids, issued, stream>>

\* the body has arrived and does not decode: except json.JSONDecodeError
post_invalid_json(p) ==
    /\ post[p].pc = "body"
    /\ post' = [post EXCEPT ![p] = PostIdle]
    /\ resp' = Response("POST", p, PostHeader(p), 400, NoHeader,
                        json_dumps(ErrorBody("Invalid JSON")))
    /\ UNCHANGED <<sessions, heap, message_handler, uuids, issued, stream, enqueued>>

\* the body has arrived and is not UTF-8: body.decode raises UnicodeDecodeError,
\* which is no JSONDecodeError: except Exception
post_body_undecodable(p) ==
    /\ post[p].pc = "body"
    /\ post' = [post EXCEPT ![p] = PostIdle]
    /\ resp' = Response("POST", p, PostHeader(p), 500, NoHeader,
                        json_dumps(ErrorBody(DecodeFailure)))
    /\ UNCHANGED <<sessions, heap, message_handler, uuids, issued, stream, enqueued>>

\* the body decodes and self.message_handler is None
post_no_handler(p) ==
    /\ post[p].pc = "body"
    /\ message_handler = None
    /\ sessions' = Cleanup(sessions, post[p].is_stateless, post[p].session_id)
    /\ post' = [post EXCEPT ![p] = PostIdle]
    /\ resp' = Response("POST", p, PostHeader(p), 500, NoHeader,
                        json_dumps(ErrorBody("No message handler configured")))
    /\ UNCHANGED <<heap, message_handler, uuids, issued, stream, enqueued>>

\* mutant: a copy is queued when the handler is called, before it has answered
post_call_handler_enqueues(p) ==
    /\ post[p].pc = "body"
    /\ message_handler # None
    /\ post' = [post EXCEPT ![p].pc = "handler"]
    /\ heap' = QueuePut(heap, post[p].session, "m1")
    /\ enqueued' = [enqueued EXCEPT ![post[p].session] = Append(@, "m1")]
    /\ UNCHANGED <<sessions, message_handler, uuids, issued, stream, resp>>

\* the body decodes: `await self.message_handler(message)` starts
post_call_handler(p) ==
    /\ post[p].pc = "body"
    /\ message_handler # None
    /\ post' = [post EXCEPT ![p].pc = "handler"]
    /\ UNCHANGED <<sessions, heap, message_handler, uuids, issued, stream, resp, enqueued>>

\* `if not is_stateless: await session['queue'].put(response)`
EnqueueResponse(h, is_stateless, o, response) ==
    IF is_stateless THEN h ELSE QueuePut(h, o, response)

\* the handler returns `response` (any value, None included): lines 203-217
post_handler_returns(p, response) ==
    /\ post[p].pc = "handler"
    /\ heap' = EnqueueResponse(heap, post[p].is_stateless, post[p].session, response)
    /\ enqueued' = IF heap' = heap THEN enqueued
                   ELSE [enqueued EXCEPT ![post[p].session] = Append(@, response)]
    /\ sessions' = Cleanup(sessions, post[p].is_stateless, post[p].session_id)
    /\ post' = [post EXCEPT ![p] = PostIdle]
    /\ IF Serializable(response)
       THEN /\ resp' = Response("POST", p, PostHeader(p), 200, post[p].session_id,
                                json_dumps(response))
            /\ issued' = issued \cup {post[p].session_id}
       ELSE /\ resp' = Response("POST", p, PostHeader(p), 500, NoHeader,
                                json_dumps(ErrorBody(NotSerializable)))
            /\ issued' = issued
    /\ UNCHANGED <<message_handler, uuids, stream>>

\* the handler raises e: except Exception
post_handler_raises(p, e) ==
    /\ post[p].pc = "handler"
    /\ post' = [post EXCEPT ![p] = PostIdle]
    /\ resp' = Response("POST", p, PostHeader(p), 500, NoHeader,
                        json_dumps(ErrorBody(e)))
    /\ UNCHANGED <<sessions, heap, message_handler, uuids, issued, stream, enqueued>>

\* ---- handle_delete: no suspension between the lookup and the del
\* lines 263-273: put the sentinel, then del; a del of a missing key raises KeyError
delete_found(reg, h, sid) ==
    LET o == reg[sid]
        signalled == QueuePut(h, o, None)
    IN [sessions |-> DelKey(reg, sid), heap |-> signalled, put_on |-> o, status |-> 200]

\* mutant: a DELETE that finds no session empties the registry
delete_missing_clears(reg, h) ==
    [sessions |-> <<>>, heap |-> h, put_on |-> 0, status |-> 404]

\* lines 256-261: `if not session_id or session_id not in self.sessions`: 404
delete_missing(reg, h) ==
    [sessions |-> reg, heap |-> h, put_on |-> 0, status |-> 404]

handle_delete(hdr) ==
    /\ hdr \in Presentable \cup {NoHeader}
    /\ LET r == IF hdr = NoHeader \/ hdr \notin DOMAIN sessions
                THEN delete_missing(sessions, heap)
                ELSE delete_found(sessions, heap, hdr)
       IN /\ sessions' = r.sessions
          /\ heap' = r.heap
          /\ enqueued' = IF r.put_on = 0 THEN enqueued
                         ELSE [enqueued EXCEPT ![r.put_on] = Append(@, None)]
          /\ resp' = Response("DELETE", "none", hdr, r.status, NoHeader,
                              IF r.status = 200 THEN json_dumps([status |-> "session terminated"])
                              ELSE IF r.status = 404 THEN json_dumps(ErrorBody("Session not found"))
                              ELSE <<"KeyError">>)
    /\ UNCHANGED <<message_handler, uuids, issued, post, stream>>

\* ---- send_message
\* mutant: a message for an unknown id opens a session for it
send_message_creates(session_id, message) ==
    /\ session_id \in Presentable
    /\ IF session_id \in DOMAIN sessions
       THEN /\ heap' = QueuePut(heap, sessions[session_id], message)
            /\ enqueued' = [enqueued EXCEPT ![sessions[session_id]] = Append(@, message)]
            /\ sessions' = sessions
       ELSE /\ heap' = Append(heap, [GetSession(session_id) EXCEPT !.queue = <<message>>])
            /\ enqueued' = Append(enqueued, <<message>>)
            /\ sessions' = [k \in (DOMAIN sessions) \cup {session_id} |->
                              IF k = session_id THEN Len(heap) + 1 ELSE sessions[k]]
    /\ UNCHANGED <<message_handler, uuids, issued, post, stream, resp>>

send_message(session_id, message) ==
    /\ session_id \in Presentable
    /\ IF session_id \in DOMAIN sessions
       THEN /\ heap' = QueuePut(heap, sessions[session_id], message)
            /\ enqueued' = [enqueued EXCEPT ![sessions[session_id]] = Append(@, message)]
       ELSE UNCHANGED <<heap, enqueued>>
    /\ UNCHANGED <<sessions, message_handler, uuids, issued, post, stream, resp>>

\* ---- handle_mcp_post (remote_server_streamable.py, create_app)
\* the request arrives: up to `await request.body()`
handle_mcp_post(body) ==
    /\ mcp_post.pc = "idle"
    /\ mcp_post' = [pc |-> "body", body |-> body]
    /\ UNCHANGED mcp_resp

\* mutant: the error response of an unknown method carries no request id
UnknownMethod_no_id(message) == McpResponse(200, MethodNotFound(None, Get(message, "method")))

\* lines 221-229: the method is neither tools/list nor tools/call
UnknownMethod(message) ==
    McpResponse(200, MethodNotFound(Get(message, "id"), Get(message, "method")))

\* mutant: the internal error always answers with id null
InternalError_no_id(message, e) ==
    McpResponse(500, JsonRpcError(None, -32603, "Internal error", e))

\* `except Exception` (lines 241-250) when `message` is bound: message.get('id')
\* is evaluated inside the except clause, and raises for a message without .get
InternalError(message, e) ==
    IF message.kind = "object"
    THEN McpResponse(500, JsonRpcError(Get(message, "id"), -32603, "Internal error", e))
    ELSE McpRaises("AttributeError")

\* the body has arrived: lines 196-229 up to the await of a tool call, or to the return
mcp_decode ==
    /\ mcp_post.pc = "body"
    /\ LET message == mcp_post.body
           method == Get(message, "method")
           calls == /\ message.kind = "object"
                    /\ \/ method = "tools/list"
                       \/ method = "tools/call" /\ message.params # "array"
       IN IF calls
          THEN /\ mcp_post' = [mcp_post EXCEPT !.pc = "tool"]
               /\ UNCHANGED mcp_resp
          ELSE /\ mcp_post' = McpIdle
               /\ mcp_resp' =
                    CASE message.kind = "not_utf8" ->
                           \* body.decode raises; 'message' is not in locals()
                           McpResponse(500, JsonRpcError(None, -32603, "Internal error",
                                                         DecodeFailure))
                      [] message.kind = "not_json" ->
                           McpResponse(400, JsonRpcError(None, -32700, "Parse error",
                                                         "str(e)"))
                      [] message.kind \in {"array", "number"} ->
                           \* message.get('method') raises AttributeError
                           InternalError(message, "no attribute get")
                      [] message.kind = "object" /\ method = "tools/call" ->
                           \* params.get('name') on a list raises AttributeError
                           InternalError(message, "no attribute get")
                      [] OTHER -> UnknownMethod(message)

\* mcp.list_tools() / mcp.call_tool() returns: lines 207-211 / 216-220, 228-229
mcp_tool_returns ==
    /\ mcp_post.pc = "tool"
    /\ mcp_post' = McpIdle
    /\ mcp_resp' = McpResponse(200, JsonRpcResult(Get(mcp_post.body, "id"),
                                                  IF mcp_post.body.method = "tools/list"
                                                  THEN "tools" ELSE "result"))

\* mcp.list_tools() / mcp.call_tool() raises e: except Exception
mcp_tool_raises(e) ==
    /\ mcp_post.pc = "tool"
    /\ mcp_post' = McpIdle
    /\ mcp_resp' = InternalError(mcp_post.body, e)

\* ---- simple_auth_middleware and the routes behind it
\* MCP_API_KEY='' in the environment of the process: read once, at import
environ(key) ==
    /\ events = 0
    /\ gate = GateIdle
    /\ MCP_API_KEY = DefaultKey
    /\ key \in ApiKeys \ {DefaultKey}
    /\ MCP_API_KEY' = key
    /\ UNCHANGED <<gate, mcp_post, mcp_resp>>

\* a request arrives: up to the `await request.body()` of the logging (POST),
\* or to the check (GET)
gate_receives(request) ==
    /\ gate.pc = "idle"
    /\ mcp_post.pc = "idle"
    /\ gate' = [pc |-> "check", request |-> request, status |-> 0, reached |-> "none"]
    /\ UNCHANGED <<MCP_API_KEY, mcp_post, mcp_resp>>

\* the gate answers 401: call_next is not called
gate_rejects ==
    /\ gate.pc = "check"
    /\ simple_auth_middleware(gate.request, MCP_API_KEY).status = 401
    /\ gate' = [gate EXCEPT !.pc = "idle", !.status = 401]
    /\ UNCHANGED <<MCP_API_KEY, mcp_post, mcp_resp>>

\* `return await call_next(request)`: the router calls the endpoint; a POST to
\* /mcp starts handle_mcp_post, the other endpoints answer at once
gate_calls_next ==
    /\ gate.pc = "check"
    /\ simple_auth_middleware(gate.request, MCP_API_KEY) = CallNext
    /\ LET endpoint == Route(gate.request) IN
        /\ gate' = [gate EXCEPT !.pc = "idle", !.reached = endpoint,
                                 !.status = CASE endpoint = "method not allowed" -> 405
                                              [] endpoint = "handle_mcp_post" -> 0
                                              [] OTHER -> 200]
        /\ IF endpoint = "handle_mcp_post"
           THEN handle_mcp_post(gate.request.body)
           ELSE UNCHANGED <<mcp_post, mcp_resp>>
    /\ UNCHANGED MCP_API_KEY

\* ------------------------------------------------------- specification
\* an event from outside, within the budget n
External(n) == events < n /\ events' = events + 1
\* a task of the server runs on
Internal == events' = events

\* a step of the transport leaves the tasks of the /mcp application alone
Transport == UNCHANGED <<app_vars, gate_vars>>

\* p is the first free handle_post task
FirstFree(p) == \A q \in EarlierPost(p) : post[q].pc # "idle"

\* one step of the server, with at most n events from outside in the run and
\* the handle_post tasks `tasks`
ServerStep(n, tasks) ==
    \/ Transport /\ Internal /\ set_message_handler
    \/ \E g \in Streams, hdr \in AllIds \cup {NoHeader} :
          Transport /\ External(n) /\ handle_get(g, hdr)
    \/ \E g \in Streams :
          Transport /\ Internal /\ gen_handshake(g)
    \/ \E g \in Streams :
          Transport /\ Internal /\ gen_dequeue(g)
    \/ \E g \in Streams :
          Transport /\ Internal /\ gen_emit(g)
    \/ \E g \in Streams :
          Transport /\ External(n) /\ gen_keepalive(g)
    \/ \E g \in Streams :
          Transport /\ External(n) /\ gen_disconnect(g)
    \/ \E p \in tasks, hdr \in AllIds \cup {NoHeader} :
          Transport /\ External(n) /\ FirstFree(p) /\ handle_post(p, hdr)
    \/ \E p \in tasks :
          Transport /\ Internal /\ post_invalid_json(p)
    \/ \E p \in tasks :
          Transport /\ Internal /\ post_body_undecodable(p)
    \/ \E p \in tasks :
          Transport /\ Internal /\ post_no_handler(p)
    \/ \E p \in tasks :
          Transport /\ Internal /\ post_call_handler(p)
    \/ \E p \in tasks, response \in Payloads \cup {None} :
          Transport /\ Internal /\ post_handler_returns(p, response)
    \/ \E p \in tasks, e \in HandlerFailures :
          Transport /\ Internal /\ post_handler_raises(p, e)
    \/ \E hdr \in AllIds \cup {NoHeader} :
          Transport /\ External(n) /\ handle_delete(hdr)
    \/ \E session_id \in AllIds, message \in Payloads :
          Transport /\ External(n) /\ send_message(session_id, message)

Step(n) == ServerStep(n, OnePost)

Next == Step(MaxEvents)

Spec == Init /\ [][Next]_vars

\* The event loop runs every task that can run: a generator whose client reads
\* goes on after each yield, and a queue.get() returns once the queue holds an
\* item. Nothing obliges a request, a timeout or a disconnect to happen.
Fairness ==
    \A g \in Streams :
        /\ WF_vars(Transport /\ Internal /\ gen_handshake(g))
        /\ WF_vars(Transport /\ Internal /\ gen_dequeue(g))
        /\ WF_vars(Transport /\ Internal /\ gen_emit(g))

FairSpec == Init /\ [][Step(LiveEvents)]_vars /\ Fairness

\* Two POST requests in flight at once
SpecTwoPosts == Init /\ [][ServerStep(TwoEvents, PostTasks)]_vars

\* a step of the /mcp application leaves the transport object alone
App == UNCHANGED <<transport_vars, gate_vars>>

\* The POST entry points alone: handle_post of the transport and handle_mcp_post
\* of the application, with at most n requests in the run
PostStep(n) ==
    \/ Transport /\ Internal /\ set_message_handler
    \/ \E p \in OnePost, hdr \in AllIds \cup {NoHeader} :
          Transport /\ External(n) /\ handle_post(p, hdr)
    \/ \E p \in OnePost :
          Transport /\ Internal /\ post_invalid_json(p)
    \/ \E p \in OnePost :
          Transport /\ Internal /\ post_body_undecodable(p)
    \/ \E p \in OnePost :
          Transport /\ Internal /\ post_no_handler(p)
    \/ \E p \in OnePost :
          Transport /\ Internal /\ post_call_handler(p)
    \/ \E p \in OnePost, response \in Payloads \cup {None} :
          Transport /\ Internal /\ post_handler_returns(p, response)
    \/ \E p \in OnePost, e \in HandlerFailures :
          Transport /\ Internal /\ post_handler_raises(p, e)
    \/ \E body \in Bodies :
          App /\ External(n) /\ handle_mcp_post(body)
    \/ App /\ Internal /\ mcp_decode
    \/ App /\ Internal /\ mcp_tool_returns
    \/ \E e \in ToolFailures :
          App /\ Internal /\ mcp_tool_raises(e)

SpecPost == Init /\ [][PostStep(PostEvents)]_vars

\* a step of the application behind the gate leaves the transport object alone
Gate == UNCHANGED transport_vars

\* The application of create_app: the gate, the routes, handle_mcp_post
NextGate ==
    \/ \E key \in ApiKeys :
          Gate /\ Internal /\ environ(key)
    \/ \E request \in Requests :
          Gate /\ External(GateEvents) /\ gate_receives(request)
    \/ Gate /\ Internal /\ gate_rejects
    \/ Gate /\ Internal /\ gate_calls_next
    \/ Gate /\ Internal /\ mcp_decode /\ UNCHANGED gate_vars
    \/ Gate /\ Internal /\ mcp_tool_returns /\ UNCHANGED gate_vars
    \/ \E e \in ToolFailures :
          Gate /\ Internal /\ mcp_tool_raises(e) /\ UNCHANGED gate_vars

SpecGate == Init /\ [][NextGate]_vars

\* The replay buffer at its capacity: one session, one stream, send_message
\* alternating the two payloads.
NextPayload == IF events % 2 = 1 THEN "m1" ELSE "m2"

NextBuffer ==
    \/ Transport /\ External(BufEvents) /\ handle_get("g1", "c1")
    \/ Transport /\ Internal /\ gen_handshake("g1")
    \/ Transport /\ Internal /\ gen_dequeue("g1")
    \/ Transport /\ Internal /\ gen_emit("g1")
    \/ Transport /\ External(BufEvents) /\ "c1" \in DOMAIN sessions /\ send_message("c1", NextPayload)

SpecBuffer == Init /\ [][NextBuffer]_vars

\* Messages json.dumps cannot encode: send_message and the handler may hand the
\* transport any object
AnyPayloads == {"m1", Unserializable}

NextFailure ==
    \/ Transport /\ Internal /\ set_message_handler
    \/ \E g \in Streams, hdr \in ClientIds \cup {NoHeader} :
          Transport /\ External(FailEvents) /\ handle_get(g, hdr)
    \/ \E g \in Streams :
          Transport /\ Internal /\ gen_handshake(g)
    \/ \E g \in Streams :
          Transport /\ Internal /\ gen_dequeue(g)
    \/ \E g \in Streams :
          Transport /\ Internal /\ gen_emit(g)
    \/ \E g \in Streams :
          Transport /\ Internal /\ gen_fails(g)
    \/ \E g \in Streams :
          Transport /\ External(FailEvents) /\ gen_disconnect(g)
    \/ \E p \in OnePost, hdr \in ClientIds \cup {NoHeader} :
          Transport /\ External(FailEvents) /\ handle_post(p, hdr)
    \/ \E p \in OnePost :
          Transport /\ Internal /\ post_call_handler(p)
    \/ \E p \in OnePost, response \in AnyPayloads :
          Transport /\ Internal /\ post_handler_returns(p, response)
    \/ \E hdr \in ClientIds :
          Transport /\ External(FailEvents) /\ handle_delete(hdr)
    \/ \E session_id \in ClientIds, message \in AnyPayloads :
          Transport /\ External(FailEvents) /\ send_message(session_id, message)

SpecFailure == Init /\ [][NextFailure]_vars

\* One client that connects, is cut and connects again on its session id
NextResume ==
    \/ \E g \in Streams :
          Transport /\ External(ResumeEvents) /\ handle_get(g, "c1")
    \/ \E g \in Streams :
          Transport /\ Internal /\ gen_handshake(g)
    \/ \E g \in Streams :
          Transport /\ Internal /\ gen_dequeue(g)
    \/ \E g \in Streams :
          Transport /\ Internal /\ gen_emit(g)
    \/ \E g \in Streams :
          Transport /\ External(ResumeEvents) /\ gen_disconnect(g)
    \/ \E message \in Payloads :
          Transport /\ External(ResumeEvents) /\ send_message("c1", message)

SpecResume == Init /\ [][NextResume]_vars

\* ------------------------------------------------------------ properties
Objects == 1..Len(heap)
\* the 'message' frames among the frames a stream has sent
MessageFrames(out) == SelectSeq(out, LAMBDA f : f.event = "message")
\* the payloads ever put on a queue, in order (the sentinel is no payload)
Messages(items) == SelectSeq(items, LAMBDA m : m # None)
\* stream g holds session object o
Attached(g, o) == stream[g].pc # "idle" /\ stream[g].session = o
\* g is the only stream that ever held its session object
SoleStream(g) ==
    /\ stream[g].pc # "idle"
    /\ \A h \in Streams \ {g} : ~Attached(h, stream[g].session)
Max(a, b) == IF a > b THEN a ELSE b
Min(a, b) == IF a < b THEN a ELSE b

\* C1: the 'message' frames of a stream that alone drains a session are, in
\* order, the first k payloads put on the session's queue with ids 1..k, and
\* once the stream waits on the emptied queue, k is the number N of payloads
\* enqueued.
C1_SingleStreamInOrder ==
    \A g \in Streams : SoleStream(g) =>
        LET o == stream[g].session
            frames == MessageFrames(stream[g].out)
            msgs == Messages(enqueued[o])
        IN /\ Len(frames) <= Len(msgs)
           /\ \A i \in 1..Len(frames) :
                 /\ frames[i].id = str(i)
                 /\ frames[i].data = json_dumps(msgs[i])
           /\ (stream[g].pc = "wait" /\ heap[o].queue = <<>>) => Len(frames) = Len(msgs)

\* three payloads, not all equal, enqueued on one session and all emitted by its only stream
C1_Witness ==
    \E g \in Streams :
        /\ SoleStream(g)
        /\ stream[g].pc = "wait"
        /\ heap[stream[g].session].queue = <<>>
        /\ Len(MessageFrames(stream[g].out)) = 3
        /\ enqueued[stream[g].session][1] # enqueued[stream[g].session][2]

\* gen_dequeue takes a payload off the queue of session object o in this step
Delivered(o) ==
    \E g \in Streams :
        /\ stream[g].session = o
        /\ stream[g].pc = "wait"
        /\ stream'[g].pc = "emit"

\* the ids of the 'message' frames sent for session object o differ pairwise,
\* whichever streams sent them
DistinctIds(o) ==
    \A g, h \in Streams : (Attached(g, o) /\ Attached(h, o)) =>
        LET fg == MessageFrames(stream[g].out)
            fh == MessageFrames(stream[h].out)
        IN \A i \in 1..Len(fg), j \in 1..Len(fh) :
              (g # h \/ i # j) => fg[i].id # fh[j].id

CounterStep ==
    /\ \A o \in Objects :
          heap'[o].event_counter =
              IF Delivered(o) THEN heap[o].event_counter + 1 ELSE heap[o].event_counter
    /\ \A o \in (Len(heap) + 1)..Len(heap') : heap'[o].event_counter = 0

\* C2: a session's event_counter starts at 0, never decreases and grows by
\* exactly one per delivered message (and by nothing else), and no two
\* 'message' frames sent for one session carry the same id, whichever of its
\* streams sent them.
C2_CounterMonotoneIdsUnique ==
    /\ [](\A o \in Objects : DistinctIds(o))
    /\ [][CounterStep]_vars

\* two streams on one session, each having sent a 'message' frame
C2_Witness ==
    /\ stream["g1"].session = stream["g2"].session
    /\ stream["g1"].session # 0
    /\ MessageFrames(stream["g1"].out) # <<>>
    /\ MessageFrames(stream["g2"].out) # <<>>

\* C3: every session's message_buffer holds at most 100 entries, in every
\* state another task can observe.
C3_BufferAtMost100 ==
    \A o \in Objects : Len(heap[o].message_buffer) <= 100

\* a full buffer after 150 deliveries: 50 entries were evicted
C3_Witness ==
    \E o \in Objects :
        /\ heap[o].event_counter = 150
        /\ Len(heap[o].message_buffer) = 100

\* message_buffer of session object o holds exactly the entries with ids
\* max(1, n-99)..n, in increasing order
BufferHolds(o, n) ==
    /\ Len(heap[o].message_buffer) = Min(n, 100)
    /\ \A i \in 1..Len(heap[o].message_buffer) :
          heap[o].message_buffer[i].id = str(Max(1, n - 99) + i - 1)

\* C4 as claimed: after N messages have been enqueued on a session, its
\* message_buffer holds exactly the entries with ids max(1, N-99)..N.
C4_Original_AfterNEnqueued ==
    \A o \in Objects : BufferHolds(o, Len(Messages(enqueued[o])))

\* C4, amended: after N messages of a session have been delivered by the SSE
\* loop (event_counter = N), its message_buffer holds exactly the entries with
\* ids max(1, N-99)..N in increasing order, entry k carrying the k-th payload
\* enqueued; a message still on the queue is not in the buffer.
C4_AfterNDelivered ==
    \A o \in Objects :
        LET n == heap[o].event_counter IN
        /\ BufferHolds(o, n)
        /\ n <= Len(Messages(enqueued[o]))
        /\ \A i \in 1..Len(heap[o].message_buffer) :
              heap[o].message_buffer[i].data =
                  Messages(enqueued[o])[Max(1, n - 99) + i - 1]

\* 150 deliveries: the buffer runs from entry 51 to entry 150
C4_Witness ==
    \E o \in Objects :
        /\ heap[o].event_counter = 150
        /\ heap[o].message_buffer[1].id = <<5, 1>>
        /\ heap[o].message_buffer[100].id = <<1, 5, 0>>

\* steps of a handle_post task
PostStarts(p) == post[p].pc = "idle" /\ post'[p].pc = "body"
PostReturns(p) == post[p].pc # "idle" /\ post'[p].pc = "idle"
PostRuns(p) == post[p].pc # "idle" /\ post'[p] # post[p]
\* no id of the registry names session object o
Removed(o) == \A id \in DOMAIN sessions : sessions[id] # o
\* a new session dict as both handlers write it
IsFresh(s, id) ==
    /\ s.id = id
    /\ s.queue = <<>>
    /\ s.event_counter = 0
    /\ s.message_buffer = <<>>

\* C5 as claimed: once a POST without Mcp-Session-Id has returned, whatever
\* its outcome, the registry does not contain the id it synthesized.
C5_StatelessGoneOnReturn ==
    [][\A p \in PostTasks :
          (PostReturns(p) /\ post[p].is_stateless) =>
              post[p].session_id \notin DOMAIN sessions']_vars

\* C6: a POST without Mcp-Session-Id changes no session's queue,
\* event_counter or message_buffer in any of its steps, and nothing is ever
\* put on the queue of the session it created.
C6_StatelessPutsNothing ==
    /\ [](\A o \in Objects : heap[o].is_stateless = "True" =>
              (heap[o].queue = <<>> /\ enqueued[o] = <<>>))
    /\ [][\A p \in PostTasks :
             (post'[p] # post[p] /\ (post[p].is_stateless \/ post'[p].is_stateless)) =>
                 \A o \in Objects : heap'[o] = heap[o] /\ enqueued'[o] = enqueued[o]]_vars

\* a stateless POST has returned 200 while another session has a message pending
C6_Witness ==
    /\ resp.op = "POST"
    /\ resp.req = NoHeader
    /\ resp.status = 200
    /\ \E o \in Objects : heap[o].queue # <<>>

\* C7: a POST with an Mcp-Session-Id the registry does not contain creates a
\* new non-stateless session under exactly that id; no later step of the POST
\* removes it; and when the handler returns, the answer is 200 with the
\* handler's response and the same Mcp-Session-Id.
C7_PostAutoCreates ==
    [][\A p \in PostTasks :
          /\ (PostStarts(p) /\ ~post'[p].is_stateless
                /\ post'[p].session_id \notin DOMAIN sessions) =>
                LET id == post'[p].session_id IN
                /\ id \in DOMAIN sessions'
                /\ sessions'[id] = Len(heap) + 1
                /\ post'[p].session = sessions'[id]
                /\ Len(heap') = Len(heap) + 1
                /\ IsFresh(heap'[sessions'[id]], id)
                /\ heap'[sessions'[id]].is_stateless = "False"
                /\ \A k \in DOMAIN sessions : k \in DOMAIN sessions' /\ sessions'[k] = sessions[k]
          /\ (PostRuns(p) /\ ~post[p].is_stateless) => sessions' = sessions
          /\ \A response \in Payloads \cup {None} :
                (post_handler_returns(p, response) /\ ~post[p].is_stateless) =>
                    /\ resp'.op = "POST"
                    /\ resp'.status = 200
                    /\ resp'.sid = post[p].session_id
                    /\ resp'.content = json_dumps(response)]_vars

\* the id a stateless POST returned was used for a second POST, which created
\* a session that is still registered after its 200
C7_Witness ==
    \E o \in Objects :
        /\ heap[o].is_stateless = "True"
        /\ resp.op = "POST"
        /\ resp.status = 200
        /\ resp.req = heap[o].id
        /\ resp.sid = heap[o].id
        /\ heap[o].id \in DOMAIN sessions
        /\ heap[sessions[heap[o].id]].is_stateless = "False"

\* C8: DELETE of a registered id answers 200 and leaves the registry without
\* it (and otherwise as it was); a GET or POST with an id the registry does
\* not contain gets a new session object with event_counter 0, an empty queue
\* and an empty message_buffer, and leaves every earlier session object,
\* deleted ones included, as it was.
C8_DeleteThenNewSession ==
    [][/\ \A hdr \in AllIds :
             (handle_delete(hdr) /\ hdr \in DOMAIN sessions) =>
                 /\ resp'.op = "DELETE"
                 /\ resp'.status = 200
                 /\ hdr \notin DOMAIN sessions'
                 /\ \A k \in (DOMAIN sessions) \ {hdr} :
                       k \in DOMAIN sessions' /\ sessions'[k] = sessions[k]
       /\ \A g \in Streams :
             (stream[g].pc = "idle" /\ stream'[g].pc # "idle"
                /\ stream'[g].session_id \notin DOMAIN sessions) =>
                 /\ stream'[g].session = Len(heap) + 1
                 /\ sessions'[stream'[g].session_id] = Len(heap) + 1
                 /\ IsFresh(heap'[Len(heap) + 1], stream'[g].session_id)
                 /\ \A o \in Objects : heap'[o] = heap[o]
       /\ \A p \in PostTasks :
             (PostStarts(p) /\ post'[p].session_id \notin DOMAIN sessions) =>
                 /\ post'[p].session = Len(heap) + 1
                 /\ sessions'[post'[p].session_id] = Len(heap) + 1
                 /\ IsFresh(heap'[Len(heap) + 1], post'[p].session_id)
                 /\ \A o \in Objects : heap'[o] = heap[o]]_vars

\* an id was deleted after a delivery and registered again: the new session
\* object starts at 0 and the old one keeps its count
C8_Witness ==
    \E o1, o2 \in Objects :
        /\ o1 < o2
        /\ heap[o1].id = heap[o2].id
        /\ heap[o1].event_counter = 1
        /\ enqueued[o1][Len(enqueued[o1])] = None
        /\ heap[o2].id \in DOMAIN sessions
        /\ sessions[heap[o2].id] = o2
        /\ heap[o2].event_counter = 0
        /\ resp.op \in {"GET", "POST"}

Open(g) == stream[g].pc \in {"handshake", "wait", "emit"}
\* a stream that has taken the close signal sends nothing more
SilentAfterSignal ==
    \A g \in Streams :
        stream[g].closed_by = "sentinel" =>
            (stream'[g].out = stream[g].out /\ stream'[g].pc = "closed")

\* C10 as claimed: after a DELETE of a session, every stream attached to it
\* eventually closes, and sends no 'message' frame after the close signal.
C10_Original_EveryStreamCloses ==
    /\ \A g \in Streams :
          (Open(g) /\ Removed(stream[g].session)) ~> (stream[g].pc = "closed")
    /\ [][SilentAfterSignal]_vars

\* C10, amended: after a DELETE of a session, the stream attached to it, when
\* no other stream was attached to that session, eventually takes the close
\* signal (or its client disconnects first) and closes, and a stream that has
\* taken the close signal sends nothing more.
C10_SoleStreamCloses ==
    /\ \A g \in Streams :
          (SoleStream(g) /\ Open(g) /\ Removed(stream[g].session)) ~>
              (stream[g].pc = "closed")
    /\ [][SilentAfterSignal]_vars

\* the only stream of a deleted session sent a message, then took the close signal
C10_Witness ==
    \E g \in Streams :
        /\ SoleStream(g)
        /\ Removed(stream[g].session)
        /\ stream[g].closed_by = "sentinel"
        /\ MessageFrames(stream[g].out) # <<>>
        /\ resp.op = "DELETE"
        /\ resp.status = 200

\* an item is put on the queue of session object o in this step
PutOn(o) == Len(enqueued'[o]) = Len(enqueued[o]) + 1
\* the item put last on the queue of session object o, after this step
LastPut(o) == enqueued'[o][Len(enqueued'[o])]
\* the streams that left their loop on the close signal of session object o
ClosedBySignal(o) ==
    {g \in Streams : stream[g].session = o /\ stream[g].closed_by = "sentinel"}

\* C11 as claimed: only DELETE makes a stream terminate on the close signal:
\* no stream of a session that was not deleted has terminated on it, and of a
\* deleted session no more streams than the one DELETE signalled; a response
\* enqueued by a POST or a message of send_message terminates none.
C11_OnlyDeleteCloses ==
    \A o \in Objects :
        Cardinality(ClosedBySignal(o)) <= IF Removed(o) THEN 1 ELSE 0

\* C12: a DELETE without Mcp-Session-Id, or with an id the registry does not
\* contain, answers 404 and leaves the registry and every session object
\* (queue, event_counter, message_buffer) as they were.
C12_DeleteMissing404 ==
    [][\A hdr \in AllIds \cup {NoHeader} :
          (handle_delete(hdr) /\ (hdr = NoHeader \/ hdr \notin DOMAIN sessions)) =>
              /\ resp'.op = "DELETE"
              /\ resp'.status = 404
              /\ resp'.content = json_dumps(ErrorBody("Session not found"))
              /\ sessions' = sessions
              /\ heap' = heap
              /\ enqueued' = enqueued]_vars

\* a DELETE of an unknown id was answered 404 while a registered session had
\* delivered one message and held another on its queue
C12_Witness ==
    /\ resp.op = "DELETE"
    /\ resp.status = 404
    /\ resp.req # NoHeader
    /\ \E id \in DOMAIN sessions :
          /\ heap[sessions[id]].event_counter = 1
          /\ heap[sessions[id]].message_buffer # <<>>
          /\ heap[sessions[id]].queue # <<>>

\* the handler of task p returns in this step (lines 203-217 run)
HandlerReturns(p) ==
    \E response \in Payloads \cup {None} : post_handler_returns(p, response)
\* the effect of a successful non-stateless POST: the handler's response is put
\* once at the tail of the queue of the session the task holds, nothing else
\* of any session changes, and the same response is the body of the 200
EnqueuedOnceAndReturned(p) ==
    \A response \in Payloads \cup {None} :
        (post_handler_returns(p, response) /\ ~post[p].is_stateless) =>
            LET o == post[p].session IN
            /\ heap'[o] = [heap[o] EXCEPT !.queue = Append(@, response)]
            /\ enqueued'[o] = Append(enqueued[o], response)
            /\ \A q \in Objects \ {o} : heap'[q] = heap[q] /\ enqueued'[q] = enqueued[q]
            /\ resp'.op = "POST"
            /\ resp'.status = 200
            /\ resp'.content = json_dumps(response)
\* no other step of a POST in flight puts anything on a queue
OtherStepsPutNothing(p) ==
    (PostRuns(p) /\ ~HandlerReturns(p)) => (heap' = heap /\ enqueued' = enqueued)

IsJsonRpcError(content, code) ==
    /\ DOMAIN content = {"jsonrpc", "id", "error"}
    /\ content.jsonrpc = "2.0"
    /\ DOMAIN content.error \in {{"code", "message"}, {"code", "message", "data"}}
    /\ content.error.code = code
\* the value json.dumps was given for the body of the transport's last response
Body(r) == r.content[2]
\* handle_mcp_post answers a body that is text but not JSON in this step
McpNotJson == mcp_decode /\ mcp_post.body.kind = "not_json"

\* C14 as claimed: on both POST entry points a body that is not valid JSON is
\* answered with HTTP 400 and a JSON-RPC error object with code -32700 and id
\* null.
C14_ParseErrorOnEveryEntry ==
    [][/\ \A p \in PostTasks :
             post_invalid_json(p) =>
                 /\ resp'.status = 400
                 /\ IsJsonRpcError(Body(resp'), -32700)
                 /\ Body(resp').id = None
       /\ McpNotJson =>
             /\ mcp_resp'.raised = None
             /\ mcp_resp'.status = 400
             /\ IsJsonRpcError(mcp_resp'.content, -32700)
             /\ mcp_resp'.content.id = None]_vars

\* C15 as claimed: when the message handler raises during a POST, the answer
\* is HTTP 500 with a JSON-RPC error of code -32603 whose text includes the
\* failure description; nothing is enqueued, the registry and every session
\* object stay as they were, and a later POST on the same id gets the same
\* session object.
C15_HandlerFailure ==
    [][/\ \A p \in PostTasks, e \in HandlerFailures :
             post_handler_raises(p, e) =>
                 /\ resp'.status = 500
                 /\ IsJsonRpcError(Body(resp'), -32603)
                 /\ Body(resp').error.data = e
                 /\ sessions' = sessions
                 /\ heap' = heap
                 /\ enqueued' = enqueued
       /\ \A p \in PostTasks :
             (PostStarts(p) /\ post'[p].session_id \in DOMAIN sessions) =>
                 /\ post'[p].session = sessions[post'[p].session_id]
                 /\ heap' = heap
       /\ \A e \in ToolFailures :
             mcp_tool_raises(e) =>
                 /\ mcp_resp'.raised = None
                 /\ mcp_resp'.status = 500
                 /\ IsJsonRpcError(mcp_resp'.content, -32603)
                 /\ mcp_resp'.content.error.data = e]_vars

\* C16 as claimed: every POST ends with a JSON response of the handler and no
\* exception leaves the handler, whatever the body (not JSON, a JSON array or
\* number, a JSON object) and whatever the handler or tool does (returns,
\* raises).
C16_NoExceptionEscapes ==
    /\ mcp_resp.raised = None
    /\ resp.op = "POST" => (resp.status \in {200, 400, 500} /\ resp.content[1] = "json")

\* handle_mcp_post answers a JSON object whose method has no route in this step
McpNoRoute ==
    /\ mcp_decode
    /\ mcp_post.body.kind = "object"
    /\ mcp_post.body.method \notin {"tools/list", "tools/call"}

\* C17: a POST to handle_mcp_post whose decoded message is a JSON object with
\* a method other than tools/list and tools/call, or with no method, is
\* answered with HTTP 200 and a JSON-RPC error of code -32601 whose id is the
\* id of the request (null when the request has none).
C17_MethodNotFound ==
    [][McpNoRoute =>
          /\ mcp_resp'.raised = None
          /\ mcp_resp'.status = 200
          /\ IsJsonRpcError(mcp_resp'.content, -32601)
          /\ mcp_resp'.content.id =
                IF mcp_post.body.id = Missing THEN None ELSE mcp_post.body.id
          /\ mcp_post'.pc = "idle"]_vars

\* a request with id "req-a" and no method was answered 200 with error -32601
\* and id "req-a"
C17_Witness ==
    /\ mcp_resp.status = 200
    /\ IsJsonRpcError(mcp_resp.content, -32601)
    /\ mcp_resp.content.id = "req-a"
    /\ mcp_resp.content.error.message = <<"Method not found: ", None>>

\* what a POST that finds no message handler does: 500, nothing put on any
\* queue, no session object changed, and the registry without the id if the
\* request was stateless, unchanged otherwise
NoHandlerOutcome(p) ==
    /\ resp'.op = "POST"
    /\ resp'.status = 500
    /\ heap' = heap
    /\ enqueued' = enqueued
    /\ IF post[p].is_stateless
       THEN /\ post[p].session_id \notin DOMAIN sessions'
            /\ \A k \in (DOMAIN sessions) \ {post[p].session_id} :
                  k \in DOMAIN sessions' /\ sessions'[k] = sessions[k]
       ELSE sessions' = sessions

\* C18 as claimed: a POST answered while no message handler is configured
\* returns 500, enqueues nothing and, if stateless, has removed its session.
C18_Original_AnyPostWithoutHandler ==
    [][\A p \in PostTasks :
          (PostReturns(p) /\ message_handler = None) => NoHandlerOutcome(p)]_vars

\* C18, amended: a POST whose body decodes as JSON while no message handler is
\* configured returns 500 with the error 'No message handler configured',
\* enqueues nothing and, if stateless, has removed its session; a body that
\* does not decode is answered by the decode error first (400, or 500 for
\* bytes that are not UTF-8), whether or not a handler is configured.
C18_NoHandler500 ==
    [][\A p \in PostTasks :
          /\ post_no_handler(p) =>
                /\ NoHandlerOutcome(p)
                /\ Body(resp') = ErrorBody("No message handler configured")
          /\ (PostReturns(p) /\ message_handler = None /\ ~post_no_handler(p)) =>
                /\ resp'.status \in {400, 500}
                /\ Body(resp') \in {ErrorBody("Invalid JSON"), ErrorBody(DecodeFailure)}
                /\ resp'.status = 400 <=> Body(resp') = ErrorBody("Invalid JSON")]_vars

\* a stateless POST was answered 500 for want of a handler, its session is
\* gone from the registry, and another session is still registered
C18_Witness ==
    /\ message_handler = None
    /\ resp.op = "POST"
    /\ resp.status = 500
    /\ resp.req = NoHeader
    /\ Body(resp) = ErrorBody("No message handler configured")
    /\ \E o \in Objects : heap[o].is_stateless = "True" /\ Removed(o)
    /\ DOMAIN sessions # {}

\* stream g sends a keepalive comment in this step
KeepaliveSent(g) ==
    stream'[g].out = Append(stream[g].out, Frame("keepalive", <<>>, <<>>))

\* C19: each timeout of the wait on an empty queue makes the stream send one
\* ': keepalive' comment and go on waiting, still open; a keepalive is sent
\* only then, and the step changes no session's queue, event_counter or
\* message_buffer and not the registry: it takes no event id and loses no
\* message.
C19_KeepaliveChangesNothing ==
    [][\A g \in Streams :
          /\ gen_keepalive(g) => KeepaliveSent(g)
          /\ KeepaliveSent(g) =>
                /\ stream[g].pc = "wait"
                /\ heap[stream[g].session].queue = <<>>
                /\ stream'[g].pc = "wait"
                /\ stream'[g].closed_by = "none"
                /\ heap' = heap
                /\ enqueued' = enqueued
                /\ sessions' = sessions]_vars

\* a stream sent message 1, then a keepalive, then message 2
C19_Witness ==
    \E g \in Streams : \E i \in 1..Len(stream[g].out) :
        /\ i + 2 <= Len(stream[g].out)
        /\ stream[g].out[i].event = "message"
        /\ stream[g].out[i].id = <<1>>
        /\ stream[g].out[i + 1].event = "keepalive"
        /\ stream[g].out[i + 2].event = "message"
        /\ stream[g].out[i + 2].id = <<2>>

\* this step leaves every session other than A as it was: its registry entry,
\* and the queue, event_counter and message_buffer of each of its objects
OthersUntouched(A) ==
    \A B \in AllIds \ {A} :
        /\ B \in DOMAIN sessions <=> B \in DOMAIN sessions'
        /\ B \in DOMAIN sessions => sessions'[B] = sessions[B]
        /\ \A o \in Objects :
              heap[o].id = B => (heap'[o] = heap[o] /\ enqueued'[o] = enqueued[o])

\* every step of a request, of a stream or of send_message touches only the
\* session it is addressed to
OneSessionPerStep ==
    /\ \A g \in Streams :
          /\ (stream[g].pc = "idle" /\ stream'[g].pc # "idle") =>
                OthersUntouched(stream'[g].session_id)
          /\ (stream[g].pc # "idle" /\ stream'[g] # stream[g]) =>
                OthersUntouched(stream[g].session_id)
    /\ \A p \in PostTasks :
          /\ PostStarts(p) => OthersUntouched(post'[p].session_id)
          /\ PostRuns(p) => OthersUntouched(post[p].session_id)
    /\ \A hdr \in AllIds : handle_delete(hdr) => OthersUntouched(hdr)
    /\ \A id \in AllIds, message \in Payloads :
          send_message(id, message) => OthersUntouched(id)

\* the server can take this step now (the budget of events set aside)
CanRun(A) == ENABLED (Transport /\ Internal /\ A)

\* while task p waits for its handler, whatever is addressed to another
\* session can run: its stream goes on, its requests are taken and answered
NotBlockedBy(p) ==
    LET A == post[p].session_id IN
    /\ \A g \in Streams : stream[g].session_id # A =>
          /\ stream[g].pc = "handshake" => CanRun(gen_handshake(g))
          /\ stream[g].pc = "emit" => CanRun(gen_emit(g))
          /\ (stream[g].pc = "wait" /\ heap[stream[g].session].queue # <<>>) =>
                CanRun(gen_dequeue(g))
          /\ (stream[g].pc = "wait" /\ heap[stream[g].session].queue = <<>>) =>
                CanRun(gen_keepalive(g))
    /\ \A q \in PostTasks \ {p} : post[q].session_id # A =>
          /\ (post[q].pc = "body" /\ message_handler # None) => CanRun(post_call_handler(q))
          /\ post[q].pc = "handler" =>
                \A response \in Payloads : CanRun(post_handler_returns(q, response))
    /\ \A B \in Presentable \ {A} :
          /\ CanRun(handle_delete(B))
          /\ \A message \in Payloads : CanRun(send_message(B, message))
          /\ \A q \in PostTasks \ {p} : post[q].pc = "idle" => CanRun(handle_post(q, B))
          /\ \A g \in Streams :
                (stream[g].pc = "idle" /\ \A e \in Earlier(g) : stream[e].pc # "idle") =>
                    CanRun(handle_get(g, B))

\* C20: a GET, POST, DELETE or send_message on session A, and every step of
\* A's stream, leaves the registry entry, queue, event_counter and
\* message_buffer of every other session B as they were; and while a POST on
\* A waits for its handler, B's stream can go on and B's requests (GET, POST,
\* DELETE, send_message) can be taken and answered.
C20_SessionsIndependent ==
    /\ [][OneSessionPerStep]_vars
    /\ [](\A p \in PostTasks : post[p].pc = "handler" => NotBlockedBy(p))

\* a POST on one session is still waiting for its handler while a later POST
\* on another session was answered 200 and that session's stream has sent
\* the response
C20_Witness ==
    /\ post["p1"].pc = "handler"
    /\ resp.op = "POST"
    /\ resp.task = "p2"
    /\ resp.status = 200
    /\ resp.req \notin {NoHeader, post["p1"].session_id}
    /\ \E g \in Streams :
          /\ stream[g].session_id = resp.req
          /\ MessageFrames(stream[g].out) # <<>>
          /\ heap[stream[g].session].event_counter = 1

\* every id of the registry names one session object, which carries that id
OneSessionPerId ==
    \A id \in DOMAIN sessions :
        /\ sessions[id] \in Objects
        /\ heap[sessions[id]].id = id
\* a registry entry is never pointed at another object, and an object is
\* created only for an id the registry does not hold
NoOverwrite ==
    /\ \A id \in (DOMAIN sessions) \cap (DOMAIN sessions') : sessions'[id] = sessions[id]
    /\ \A o \in Objects : o \in 1..Len(heap') /\ heap'[o].id = heap[o].id
    /\ Len(heap') # Len(heap) =>
          /\ Len(heap') = Len(heap) + 1
          /\ heap'[Len(heap')].id \notin DOMAIN sessions
          /\ heap'[Len(heap')].id \in DOMAIN sessions'
          /\ sessions'[heap'[Len(heap')].id] = Len(heap')
\* a GET or POST on a registered id takes the registered object and creates nothing
TakesRegistered ==
    /\ \A g \in Streams :
          (stream[g].pc = "idle" /\ stream'[g].pc # "idle"
             /\ stream'[g].session_id \in DOMAIN sessions) =>
              /\ stream'[g].session = sessions[stream'[g].session_id]
              /\ heap' = heap
              /\ sessions' = sessions
    /\ \A p \in PostTasks :
          (PostStarts(p) /\ post'[p].session_id \in DOMAIN sessions) =>
              /\ post'[p].session = sessions[post'[p].session_id]
              /\ heap' = heap
              /\ sessions' = sessions
\* the response a POST enqueues lands on the queue every stream of the same
\* session object reads
PutReachesStream ==
    \A p \in PostTasks, g \in Streams :
        (HandlerReturns(p) /\ ~post[p].is_stateless /\ stream[g].pc # "idle"
           /\ stream[g].session = post[p].session) =>
            /\ PutOn(stream[g].session)
            /\ heap'[stream[g].session].queue =
                  Append(heap[stream[g].session].queue, LastPut(stream[g].session))

\* C21: the registry holds one session object per id; a GET and a POST in
\* flight on the same id, with no removal of the id in between, hold the same
\* session object, whichever came first: no creation replaces a registered
\* object, and what the POST enqueues is on the queue the stream reads.
C21_OneObjectPerId ==
    /\ []OneSessionPerId
    /\ [](\A g \in Streams, p \in PostTasks :
             (stream[g].pc # "idle" /\ post[p].pc # "idle"
                /\ stream[g].session_id = post[p].session_id
                /\ ~Removed(stream[g].session) /\ ~Removed(post[p].session)) =>
                 stream[g].session = post[p].session)
    /\ [][NoOverwrite /\ TakesRegistered /\ PutReachesStream]_vars

\* a POST created the session of an id not seen before, a GET on the same id
\* arrived while the POST was waiting for its handler, and the stream has sent
\* the response the POST enqueued
C21_Witness ==
    \E g \in Streams :
        /\ stream[g].session # 0
        /\ heap[stream[g].session].is_stateless = "False"
        /\ Len(heap) = 1
        /\ events = 2
        /\ resp.op = "POST"
        /\ resp.status = 200
        /\ resp.req = stream[g].session_id
        /\ \E i \in 1..Len(stream[g].out) :
              /\ stream[g].out[i].event = "message"
              /\ stream[g].out[i].data = resp.content

\* the queue of session object o is what was put on it and not yet taken
QueueIsPending(o) ==
    \E k \in 0..Len(enqueued[o]) :
        heap[o].queue = SubSeq(enqueued[o], k + 1, Len(enqueued[o]))
\* the step that puts an item on the queue of o is send_message, the DELETE
\* that puts the sentinel, or the step in which a POST on o returns its
\* response: 200 with that item as the body (500 if json.dumps rejects the item)
PutIsSendDeleteOrReturn(o) ==
    PutOn(o) =>
        \/ post' = post /\ resp' = resp
        \/ post' = post /\ resp'.op = "DELETE" /\ resp'.status = 200 /\ LastPut(o) = None
        \/ \E p \in PostTasks :
              /\ post[p].pc = "handler"
              /\ post[p].session = o
              /\ ~post[p].is_stateless
              /\ PostReturns(p)
              /\ resp'.op = "POST"
              /\ resp'.task = p
              /\ IF Serializable(LastPut(o))
                 THEN resp'.status = 200 /\ resp'.content = json_dumps(LastPut(o))
                 ELSE resp'.status = 500
\* a stream takes a payload only off the queue, and sends only what it took
TakenFromQueue(g) ==
    /\ (stream[g].pc # "emit" /\ stream'[g].pc = "emit") =>
          /\ heap[stream[g].session].queue # <<>>
          /\ stream'[g].message = Head(heap[stream[g].session].queue)
    /\ Len(MessageFrames(stream'[g].out)) # Len(MessageFrames(stream[g].out)) =>
          /\ stream[g].pc = "emit"
          /\ stream'[g].out = Append(stream[g].out,
                                     Frame("message", stream[g].event_id,
                                           json_dumps(stream[g].message)))

\* C22: the copy of a POST response reaches a queue in the very step in which
\* handle_post returns the response to its caller, and a stream sends only
\* what it took off the queue in an earlier step: no stream emits the copy
\* before handle_post has produced the response.
C22_CopyNotBeforeResponse ==
    /\ [](\A o \in Objects : QueueIsPending(o))
    /\ [][/\ \A o \in Objects : PutIsSendDeleteOrReturn(o)
          /\ \A g \in Streams : TakenFromQueue(g)]_vars

\* a stream was attached before the POST ran, the POST has returned its 200
\* response, and the stream has sent the copy after that
C22_Witness ==
    \E g \in Streams :
        /\ events = 2
        /\ Len(heap) = 1
        /\ heap[1].is_stateless = "absent"
        /\ stream[g].session = 1
        /\ resp.op = "POST"
        /\ resp.status = 200
        /\ enqueued[1] = <<"m1">>
        /\ MessageFrames(stream[g].out) = <<Frame("message", str(1), json_dumps("m1"))>>

\* stream g is open on the session the registry holds for id
OpenOn(g, id) ==
    /\ Open(g)
    /\ stream[g].session_id = id
    /\ id \in DOMAIN sessions
    /\ sessions[id] = stream[g].session
\* a POST on id has just returned 200 with payload m
Answered(id, m) ==
    /\ resp.op = "POST"
    /\ resp.status = 200
    /\ resp.req = id
    /\ resp.content = json_dumps(m)
\* a stream of id has sent a 'message' frame carrying m
EmittedOn(id, m) ==
    \E g \in Streams :
        /\ stream[g].session_id = id
        /\ \E i \in 1..Len(stream[g].out) :
              /\ stream[g].out[i].event = "message"
              /\ stream[g].out[i].data = json_dumps(m)

\* C23: once a POST on id S has returned 200 with a payload while a stream is
\* open on the session registered for S, a stream of S eventually sends a
\* 'message' frame carrying that payload, or no stream stays open on S.
C23_EnqueuedEventuallyEmitted ==
    \A id \in ClientIds, m \in Payloads :
        (Answered(id, m) /\ \E g \in Streams : OpenOn(g, id))
            ~> (EmittedOn(id, m) \/ ~\E g \in Streams : OpenOn(g, id))

\* task p answers in this step that its body did not decode: 400 'Invalid
\* JSON', or 500 with the text of the UnicodeDecodeError
DecodeFails(p) ==
    /\ PostReturns(p)
    /\ resp'.op = "POST"
    /\ resp'.task = p
    /\ \/ resp'.status = 400
       \/ resp'.status = 500 /\ resp'.content = json_dumps(ErrorBody(DecodeFailure))

\* C24: the step in which a POST answers that its body did not decode is
\* taken from the wait for the body (the handler was not called), and changes
\* no session object, no queue and no registry entry: the session the POST
\* created before reading the body stays as it was created, registered.
C24_DecodeFailureMutatesNothing ==
    [][\A p \in PostTasks : DecodeFails(p) =>
          /\ post[p].pc = "body"
          /\ heap' = heap
          /\ enqueued' = enqueued
          /\ sessions' = sessions
          /\ stream' = stream
          /\ message_handler' = message_handler]_vars

\* with a handler installed, a POST on a new id was answered 400; the session
\* it created is registered and as created
C24_Witness ==
    /\ message_handler # None
    /\ resp.op = "POST"
    /\ resp.status = 400
    /\ resp.req = "c1"
    /\ "c1" \in DOMAIN sessions
    /\ Len(heap) = 1
    /\ heap[1] = PostSession("c1", FALSE)
    /\ enqueued[1] = <<>>

\* id leaves the registry in this step
Leaves(id) == id \in DOMAIN sessions /\ id \notin DOMAIN sessions'
\* the step is a DELETE of id answered 200
DeleteOf(id) ==
    /\ resp'.op = "DELETE"
    /\ resp'.req = id
    /\ resp'.status = 200
    /\ post' = post
    /\ stream' = stream
\* the step is the return of the POST without Mcp-Session-Id that created id
StatelessCleanupOf(id) ==
    \E p \in PostTasks :
        /\ PostReturns(p)
        /\ post[p].is_stateless
        /\ post[p].session_id = id
        /\ post[p].session = sessions[id]
        /\ heap[sessions[id]].is_stateless = "True"
        /\ stream' = stream
\* a step of a stream that is past handle_get leaves the registry alone, and
\* one that ends the stream on a failure or a disconnect leaves the session
\* objects and the queues alone as well
StreamKeepsSession(g) ==
    /\ (stream[g].pc # "idle" /\ stream'[g] # stream[g]) => sessions' = sessions
    /\ (Open(g) /\ stream'[g].pc = "closed"
          /\ stream'[g].closed_by \in {"failure", "disconnect"}) =>
            /\ heap' = heap
            /\ enqueued' = enqueued

\* C25: an id leaves the registry only in a DELETE of that id answered 200 or
\* in the return of the stateless POST that created its session; no step of an
\* SSE stream changes the registry, and the end of a stream on a failure in
\* its loop or on a client disconnect leaves event_counter, message_buffer and
\* queue of every session as they were.
C25_OnlyDeleteOrCleanupRemoves ==
    [][/\ \A id \in AllIds : Leaves(id) => (DeleteOf(id) \/ StatelessCleanupOf(id))
       /\ \A g \in Streams : StreamKeepsSession(g)]_vars

\* a stream ended on a message json.dumps rejects; its session is registered
\* with its counter, its buffer and a message still on the queue
C25_Witness ==
    \E g \in Streams :
        /\ stream[g].closed_by = "failure"
        /\ stream[g].session_id \in DOMAIN sessions
        /\ sessions[stream[g].session_id] = stream[g].session
        /\ heap[stream[g].session].event_counter = 2
        /\ Len(heap[stream[g].session].message_buffer) = 2
        /\ heap[stream[g].session].queue = <<"m1">>

\* the two frames every stream starts with
Handshake(session_id) ==
    <<Frame("endpoint", <<>>, json_dumps([endpoint |-> "/mcp"])),
      Frame("session", <<>>, json_dumps([sessionId |-> session_id]))>>
\* what stream g has sent starts with the handshake of its session id, and
\* nothing after it is a handshake frame
HandshakeFirst(g) ==
    IF stream[g].pc \in {"idle", "handshake"} \/ stream[g].out = <<>>
    THEN stream[g].out = <<>>
    ELSE /\ Len(stream[g].out) >= 2
         /\ SubSeq(stream[g].out, 1, 2) = Handshake(stream[g].session_id)
         /\ \A i \in 3..Len(stream[g].out) :
               stream[g].out[i].event \in {"message", "keepalive", "partial"}
\* handle_get answers 200 with the Mcp-Session-Id its stream will announce
HeaderIsStreamId(g) ==
    (stream[g].pc = "idle" /\ stream'[g].pc # "idle") =>
        /\ resp'.op = "GET"
        /\ resp'.status = 200
        /\ resp'.sid = stream'[g].session_id
\* the handshake step sends the two frames and touches no session; the id of
\* a stream never changes
HandshakeStep(g) ==
    /\ (stream[g].pc = "handshake" /\ stream'[g].pc = "wait") =>
          /\ stream'[g].out = Handshake(stream[g].session_id)
          /\ heap' = heap
          /\ sessions' = sessions
    /\ stream[g].pc # "idle" => stream'[g].session_id = stream[g].session_id

\* C26: whatever a stream has sent starts with the 'endpoint' and 'session'
\* frames, in this order, before any message or keepalive; the two frames have
\* no id, sending them changes no event_counter, and the session id in the
\* 'session' frame is the Mcp-Session-Id of the response of the GET.
C26_HandshakeFirst ==
    /\ [](\A g \in Streams : HandshakeFirst(g))
    /\ [][\A g \in Streams : HeaderIsStreamId(g) /\ HandshakeStep(g)]_vars

\* a GET without Mcp-Session-Id on a stream that has sent its handshake, a
\* keepalive and a message with id 1
C26_Witness ==
    \E g \in Streams :
        /\ stream[g].session_id = UuidPool[1]
        /\ Len(stream[g].out) = 4
        /\ stream[g].out[3].event = "keepalive"
        /\ stream[g].out[4].event = "message"
        /\ stream[g].out[4].id = str(1)
        /\ heap[stream[g].session].event_counter = 1

\* the ids of message_buffer of o are consecutive and end at event_counter
BufferEndsAtCounter(o) ==
    LET buffer == heap[o].message_buffer IN
    \A i \in 1..Len(buffer) :
        buffer[i].id = str(heap[o].event_counter - Len(buffer) + i)
\* the step in which stream g takes a payload: counter, buffer and eviction
\* are done in it, and nothing is sent in it
DequeueBuffers(g) ==
    (stream[g].pc = "wait" /\ stream'[g].pc = "emit") =>
        LET o == stream[g].session
            appended == Append(heap[o].message_buffer,
                               [id |-> str(heap[o].event_counter + 1),
                                data |-> Head(heap[o].queue)])
        IN /\ heap'[o].event_counter = heap[o].event_counter + 1
           /\ heap'[o].message_buffer =
                 IF Len(appended) > BufferCap THEN Tail(appended) ELSE appended
           /\ heap'[o].queue = Tail(heap[o].queue)
           /\ stream'[g].event_id = str(heap'[o].event_counter)
           /\ stream'[g].message = Head(heap[o].queue)
           /\ stream'[g].out = stream[g].out
\* the step in which stream g sends the frame: the frame carries the id taken
\* at the dequeue, and no session changes
EmitAfterBuffer(g) ==
    (stream[g].pc = "emit" /\ stream'[g].pc = "wait") =>
        /\ stream'[g].out = Append(stream[g].out,
                                   Frame("message", stream[g].event_id,
                                         json_dumps(stream[g].message)))
        /\ heap' = heap
\* a stream about to send holds an id the counter has reached
IdCounted(g) ==
    stream[g].pc = "emit" =>
        \E k \in 1..heap[stream[g].session].event_counter : stream[g].event_id = str(k)

\* C27: the step that takes a message off the queue increments event_counter,
\* appends (event_counter, payload) to message_buffer and evicts the oldest
\* entry over 100, and sends nothing; the frame is sent in a later step that
\* changes no session. In every state the ids of message_buffer are
\* consecutive and the last one is event_counter.
C27_BufferedBeforeEmit ==
    /\ [](\A o \in Objects : BufferEndsAtCounter(o))
    /\ [](\A g \in Streams : IdCounted(g))
    /\ [][\A g \in Streams : DequeueBuffers(g) /\ EmitAfterBuffer(g)]_vars

\* message 101 is taken: counted and buffered, entry 1 evicted, frame not yet sent
C27_Witness ==
    \E g \in Streams :
        /\ stream[g].pc = "emit"
        /\ stream[g].event_id = str(101)
        /\ Len(MessageFrames(stream[g].out)) = 100
        /\ heap[stream[g].session].event_counter = 101
        /\ Len(heap[stream[g].session].message_buffer) = 100
        /\ heap[stream[g].session].message_buffer[1].id = str(2)
        /\ heap[stream[g].session].message_buffer[100].id = str(101)

\* the streams of session object o that have sent a 'message' frame with id k
Emitters(o, k) ==
    {g \in Streams : /\ Attached(g, o)
                     /\ \E i \in 1..Len(stream[g].out) :
                           /\ stream[g].out[i].event = "message"
                           /\ stream[g].out[i].id = str(k)}
\* the streams of o that have taken message k and not yet sent it
Holders(o, k) ==
    {g \in Streams : Attached(g, o) /\ stream[g].pc = "emit" /\ stream[g].event_id = str(k)}
\* no stream of o was cut by its client
NoneCut(o) == \A g \in Streams : Attached(g, o) => stream[g].closed_by # "disconnect"
\* the 'message' frames of stream g carry ids of dequeued messages, increasing,
\* each with the payload that was dequeued under that id
OwnFramesInOrder(g, o) ==
    LET frames == MessageFrames(stream[g].out)
        msgs == Messages(enqueued[o])
    IN /\ \A i \in 1..Len(frames) :
             \E k \in 1..heap[o].event_counter :
                 /\ frames[i].id = str(k)
                 /\ frames[i].data = json_dumps(msgs[k])
       /\ \A i, j \in 1..Len(frames) :
             i < j => \E k, l \in 1..heap[o].event_counter :
                         k < l /\ frames[i].id = str(k) /\ frames[j].id = str(l)
\* message k of o, counted from 1 in dequeue order, was sent or is held by at
\* most one stream, and by exactly one while no stream of o was cut
OneStreamPerMessage(o) ==
    /\ heap[o].event_counter + Len(Messages(heap[o].queue)) = Len(Messages(enqueued[o]))
    /\ \A k \in 1..heap[o].event_counter :
          /\ Emitters(o, k) \cap Holders(o, k) = {}
          /\ Cardinality(Emitters(o, k) \cup Holders(o, k)) <= 1
          /\ NoneCut(o) => Cardinality(Emitters(o, k) \cup Holders(o, k)) = 1

\* C28: whatever streams share a session, message k in dequeue order gets id k
\* and is sent by one stream only, with the k-th payload enqueued; as long as
\* no stream of the session was cut by its client every dequeued message was
\* sent or is about to be sent by exactly one stream, and within each stream
\* the ids increase.
C28_TwoStreamsShareOut ==
    \A o \in Objects :
        /\ OneStreamPerMessage(o)
        /\ DistinctIds(o)
        /\ \A g \in Streams : Attached(g, o) => OwnFramesInOrder(g, o)

\* two streams open on one session; the first message went out on one of
\* them and the second on the other
C28_Witness ==
    /\ stream["g1"].session = stream["g2"].session
    /\ Open("g1")
    /\ Open("g2")
    /\ Len(enqueued[stream["g1"].session]) = 2
    /\ enqueued[stream["g1"].session][1] # enqueued[stream["g1"].session][2]
    /\ Emitters(stream["g1"].session, 1) = {"g2"}
    /\ Emitters(stream["g1"].session, 2) = {"g1"}

\* the step in which stream g starts is the GET step of its request with
\* every value of Last-Event-ID
SameWhateverLastEventId(g) ==
    (stream[g].pc = "idle" /\ stream'[g].pc # "idle") =>
        \A last_event_id \in LastEventIds : handle_get_request(g, resp'.req, last_event_id)
\* handle_get sends nothing, and reads no session it does not create
GetSendsNothing(g) ==
    (stream[g].pc = "idle" /\ stream'[g].pc # "idle") =>
        /\ stream'[g].pc = "handshake"
        /\ stream'[g].out = <<>>
        /\ \A o \in Objects : heap'[o] = heap[o]
\* the id a stream takes is the id of no entry message_buffer held before, and
\* a 'message' frame is what the stream took off the queue under that id
NoReplay(g) ==
    /\ (stream[g].pc = "wait" /\ stream'[g].pc = "emit") =>
          /\ \A i \in 1..Len(heap[stream[g].session].message_buffer) :
                heap[stream[g].session].message_buffer[i].id # stream'[g].event_id
          /\ stream'[g].message = Head(heap[stream[g].session].queue)
    /\ MessageFrames(stream'[g].out) # MessageFrames(stream[g].out) =>
          /\ stream[g].pc = "emit"
          /\ MessageFrames(stream'[g].out) =
                Append(MessageFrames(stream[g].out),
                       Frame("message", stream[g].event_id, json_dumps(stream[g].message)))

ReusesExisting(g) ==
    (stream[g].pc = "idle" /\ stream'[g].pc # "idle"
       /\ stream'[g].session_id \in DOMAIN sessions) =>
        /\ stream'[g].session = sessions[stream'[g].session_id]
        /\ heap' = heap
        /\ sessions' = sessions
        /\ enqueued' = enqueued
\* what a stream takes is the head of the queue, under the id after the
\* counter it finds
ContinuesIds(g) ==
    (stream[g].pc = "wait" /\ stream'[g].pc = "emit") =>
        LET o == stream[g].session IN
        /\ stream'[g].message = Head(heap[o].queue)
        /\ stream'[g].event_id = str(heap[o].event_counter + 1)
        /\ heap'[o].event_counter = heap[o].event_counter + 1
        /\ heap'[o].queue = Tail(heap[o].queue)

\* C30: a GET on a registered id changes no session: counter, buffer and
\* queue are kept. The stream it starts takes the messages waiting on the
\* queue from the head, numbering them on from the counter it finds, so its
\* frames carry, in order, the payloads enqueued with the ids of their
\* positions.
C30_ReattachContinues ==
    /\ [](\A g \in Streams : stream[g].pc # "idle" => OwnFramesInOrder(g, stream[g].session))
    /\ [][\A g \in Streams : ReusesExisting(g) /\ ContinuesIds(g)]_vars

\* the first stream sent message 1 and was cut; the second message of the
\* session went to the stream of a later GET on the same id, as event 2
C30_Witness ==
    /\ stream["g1"].closed_by = "disconnect"
    /\ Open("g2")
    /\ stream["g1"].session = stream["g2"].session
    /\ Len(heap) = 1
    /\ events = 5
    /\ enqueued[1] = <<"m1", "m2">>
    /\ heap[1].event_counter = 2
    /\ Len(heap[1].message_buffer) = 2
    /\ MessageFrames(stream["g1"].out) = <<Frame("message", str(1), json_dumps("m1"))>>
    /\ MessageFrames(stream["g2"].out) = <<Frame("message", str(2), json_dumps("m2"))>>

\* session object o was removed by a DELETE, and the close signal of that
\* DELETE is the only None ever put on its queue
DeletedOnce(o) ==
    /\ Removed(o)
    /\ heap[o].is_stateless # "True"
    /\ Cardinality({i \in 1..Len(enqueued[o]) : enqueued[o][i] = None}) = 1
\* the number of payloads put on the queue of o ahead of the close signal
PayloadsAhead(o) == (CHOOSE i \in 1..Len(enqueued[o]) : enqueued[o][i] = None) - 1
\* the 'message' frames of stream g are payloads put ahead of the close signal
OnlyAheadOfSignal(g, o) ==
    \A i \in 1..Len(stream[g].out) :
        stream[g].out[i].event = "message" =>
            \E k \in 1..PayloadsAhead(o) : stream[g].out[i].id = str(k)
\* the return of a POST adds no id to the registry
ReturnRegistersNothing ==
    \A p \in PostTasks :
        PostReturns(p) => (DOMAIN sessions') \subseteq (DOMAIN sessions)

\* C31 as claimed: a POST that returns puts no id into the registry, and no
\* stream attached to a deleted session sends a message that was enqueued
\* after the close signal.
C31_Original_AnyStreamSilent ==
    /\ [][ReturnRegistersNothing]_vars
    /\ [](\A o \in Objects : DeletedOnce(o) =>
             \A g \in Streams : Attached(g, o) => OnlyAheadOfSignal(g, o))

\* C31, amended: a POST that returns puts no id into the registry, and the
\* stream of a deleted session, when it is the only stream that session had,
\* sends no message that was enqueued after the close signal.
C31_SoleStreamSilent ==
    /\ [][ReturnRegistersNothing]_vars
    /\ [](\A o \in Objects : DeletedOnce(o) =>
             \A g \in Streams : (Attached(g, o) /\ SoleStream(g)) => OnlyAheadOfSignal(g, o))

\* a POST was waiting for its handler when its session was deleted; it has
\* returned 200, its response is on the queue behind the close signal, the id
\* is not registered and the only stream sent the earlier message and closed
C31_Witness ==
    \E g \in Streams :
        /\ SoleStream(g)
        /\ stream[g].closed_by = "sentinel"
        /\ Len(heap) = 1
        /\ stream[g].session = 1
        /\ sessions = <<>>
        /\ Len(enqueued[1]) = 3
        /\ enqueued[1][2] = None
        /\ enqueued[1][1] # None
        /\ enqueued[1][3] # None
        /\ heap[1].queue = <<enqueued[1][3]>>
        /\ Len(MessageFrames(stream[g].out)) = 1
        /\ resp.op = "POST"
        /\ resp.status = 200

\* the last request answered is the DELETE that removed session object o:
\* nothing was put on the queue of o since, so every payload on it was
\* enqueued before the DELETE
JustDeleted(o) ==
    /\ resp.op = "DELETE"
    /\ resp.status = 200
    /\ heap[o].id = resp.req
    /\ Removed(o)
    /\ \A q \in Objects : heap[q].id = heap[o].id => q <= o
\* stream g takes the close signal in this step
TakesSignal(g) ==
    /\ stream[g].pc = "wait"
    /\ stream'[g].pc = "closed"
    /\ stream'[g].closed_by = "sentinel"

\* C32: when the only stream of a session closes on the close signal after the
\* DELETE of the session, it has sent a 'message' frame for every payload that
\* was enqueued on the session before the DELETE.
C32_AllEmittedBeforeClose ==
    [][\A g \in Streams :
          (SoleStream(g) /\ JustDeleted(stream[g].session) /\ TakesSignal(g)) =>
              Len(MessageFrames(stream[g].out)) = Len(Messages(enqueued[stream[g].session]))]_vars

\* payloads enqueued on o = payloads counted + payloads pending
Conserved(o) ==
    Len(Messages(enqueued[o])) = heap[o].event_counter + Len(Messages(heap[o].queue))
\* how a step moves the three numbers of session object o: an enqueue adds a
\* pending item, a dequeue of a payload moves one from pending to counted,
\* every other step (a keepalive among them) leaves counter and queue alone
ConservingStep(o) ==
    \/ /\ PutOn(o)
       /\ heap'[o].queue = Append(heap[o].queue, LastPut(o))
       /\ heap'[o].event_counter = heap[o].event_counter
    \/ /\ enqueued'[o] = enqueued[o]
       /\ heap[o].queue # <<>>
       /\ heap'[o].queue = Tail(heap[o].queue)
       /\ heap'[o].event_counter =
             heap[o].event_counter + (IF Head(heap[o].queue) = None THEN 0 ELSE 1)
    \/ /\ enqueued'[o] = enqueued[o]
       /\ heap'[o].queue = heap[o].queue
       /\ heap'[o].event_counter = heap[o].event_counter

\* C33: for every session, in the registry or removed, with one stream or
\* several, the payloads enqueued are the payloads counted by event_counter
\* plus the payloads still on the queue, and every step is an enqueue, a
\* dequeue or leaves the three numbers alone.
C33_MessagesConserved ==
    /\ [](\A o \in Objects : Conserved(o))
    /\ [][\A o \in Objects : ConservingStep(o)]_vars

\* a registered session with one stream that sent a keepalive: two payloads
\* enqueued, one counted, one pending
C33_Witness ==
    \E g \in Streams :
        /\ SoleStream(g)
        /\ ~Removed(stream[g].session)
        /\ \E i \in 1..Len(stream[g].out) : stream[g].out[i].event = "keepalive"
        /\ Len(Messages(enqueued[stream[g].session])) = 2
        /\ heap[stream[g].session].event_counter = 1
        /\ Len(heap[stream[g].session].queue) = 1

\* what send_message(session_id, message) may do: put the message at the tail
\* of the queue of the registered session and touch nothing else, or, for an
\* id that is not registered, nothing at all
SendEffect(session_id, message) ==
    /\ sessions' = sessions
    /\ Len(heap') = Len(heap)
    /\ IF session_id \in DOMAIN sessions
       THEN LET o == sessions[session_id] IN
            /\ heap'[o].queue = Append(heap[o].queue, message)
            /\ heap'[o].event_counter = heap[o].event_counter
            /\ heap'[o].message_buffer = heap[o].message_buffer
            /\ \A q \in Objects \ {o} : heap'[q] = heap[q]
            /\ enqueued' = [enqueued EXCEPT ![o] = Append(@, message)]
       ELSE heap' = heap /\ enqueued' = enqueued

\* C34: a step of send_message(S, m) appends m at the tail of the queue of
\* the session registered for S and changes nothing else; when S is not
\* registered it changes nothing: no session is created, the message is gone.
C34_SendAppendsOrDrops ==
    [][\A session_id \in AllIds, message \in Payloads :
          (stream' = stream /\ post' = post /\ send_message(session_id, message)) =>
              SendEffect(session_id, message)]_vars

\* four events, none of them a GET, a DELETE or a finished POST: a message
\* sent before the POST that created the session was dropped, the two sent
\* after it are on the queue in the order sent
C34_Witness ==
    /\ events = 4
    /\ resp = NoResponse
    /\ \A g \in Streams : stream[g].pc = "idle"
    /\ Len(heap) = 1
    /\ heap[1].queue = <<"m1", "m2">>
    /\ enqueued[1] = <<"m1", "m2">>

\* handle_mcp_post ends in this step, for a body that decoded to a JSON object
McpAnswersObject ==
    /\ mcp_post.pc # "idle"
    /\ mcp_post'.pc = "idle"
    /\ mcp_post.body.kind = "object"

\* C35: whenever handle_mcp_post ends for a body that decoded to a JSON
\* object, it has returned a response (no exception left it) whose id is the
\* id of the request, null when the request has none: for tools/list and
\* tools/call that return, for a tool call that fails, for params that are no
\* object, and for a method without a route.
C35_ResponseCarriesRequestId ==
    [][McpAnswersObject =>
          /\ mcp_resp'.raised = None
          /\ mcp_resp'.status \in {200, 500}
          /\ mcp_resp'.content.jsonrpc = "2.0"
          /\ mcp_resp'.content.id = Get(mcp_post.body, "id")]_vars

\* a tools/call with id 7 whose tool failed was answered 500 with id 7
C35_Witness ==
    /\ mcp_post.pc = "idle"
    /\ mcp_resp.raised = None
    /\ mcp_resp.status = 500
    /\ IsJsonRpcError(mcp_resp.content, -32603)
    /\ mcp_resp.content.error.data \in ToolFailures
    /\ mcp_resp.content.id = "7"

\* the credentials a request presents: the token after 'Bearer ' of an
\* Authorization header that starts with 'Bearer ', and a non-empty X-API-Key
Credentials(request) ==
    (IF StartsWithBearer(request.Authorization) THEN {Tail(request.Authorization)} ELSE {})
        \cup (IF request.XApiKey # <<>> THEN {request.XApiKey} ELSE {})
\* the gate decides on its request in this step
GateDecides == gate.pc = "check" /\ gate'.pc = "idle"
\* the request was answered 401 by the gate; no endpoint ran and nothing
\* behind the gate changed
Answered401 ==
    /\ gate'.status = 401
    /\ gate'.reached = "none"
    /\ mcp_post' = mcp_post
    /\ mcp_resp' = mcp_resp
    /\ UNCHANGED transport_vars

Carried(request) == Credentials(request) \cup {request.Authorization}

PassedOn == gate'.status # 401 /\ gate'.reached # "none"

\* C37: with a key configured, the gate accepts either credential: a request
\* whose X-API-Key equals MCP_API_KEY is handed to call_next whatever its
\* Authorization header is, and a request whose Authorization is
\* 'Bearer <MCP_API_KEY>' is handed to call_next whatever its X-API-Key is.
C37_EitherCredentialAccepted ==
    [][(GateDecides /\ MCP_API_KEY # <<>>) =>
          /\ gate.request.XApiKey = MCP_API_KEY => PassedOn
          /\ gate.request.Authorization = <<"Bearer ">> \o MCP_API_KEY => PassedOn]_vars

\* the half of C37 the code meets: a Bearer token equal to the key passes
\* whatever the X-API-Key header is, and a valid X-API-Key passes when there
\* is no Authorization header
C37_BearerOrLoneApiKeyAccepted ==
    [][(GateDecides /\ MCP_API_KEY # <<>>) =>
          /\ (gate.request.XApiKey = MCP_API_KEY /\ gate.request.Authorization = <<>>)
                => PassedOn
          /\ gate.request.Authorization = <<"Bearer ">> \o MCP_API_KEY => PassedOn]_vars

\* a POST to /mcp with the configured key in X-API-Key and another key as
\* Bearer token was answered 401
C37_ValidApiKeyRejected ==
    /\ MCP_API_KEY = DefaultKey
    /\ gate.pc = "idle"
    /\ gate.status = 401
    /\ gate.reached = "none"
    /\ gate.request.path = "/mcp"
    /\ gate.request.XApiKey = DefaultKey
    /\ gate.request.Authorization = <<"Bearer ", "other-key">>
====
